---- MODULE Spec2Model ----
(***************************************************************************)
(* A model of mulint, a static analyzer that reports reentrant mutex      *)
(* acquisition and returns that leave a mutex held.  The analysed package *)
(* is a value (a sequence of function declarations over a small abstract  *)
(* syntax); the analyzer's passes are the actions.                        *)
(***************************************************************************)
EXTENDS Naturals, Sequences, FiniteSets, TLC

VARIABLES
    prog,           \* the analysed package: Visitor.funcs, in file order
    pc,             \* the pass the run is in
    idx,            \* index of the next function of the pass
    scopes,         \* Visitor.scopes / Analyzer.scopes: fqn -> finished scopes
    calls,          \* Visitor.calls: fqn -> called fqns
    wrappers,       \* WrapperRegistry.wrappers: fqn -> WrapperMethod
    conditionals,   \* ConditionalLockRegistry.locks: fqn -> conditional locks
    errors,         \* Analyzer.errors
    missingUnlocks, \* Analyzer.missingUnlocks
    reported,       \* Analyzer.reported
    todo            \* functions checkReentrantLocks has not visited yet

vars == <<prog, pc, idx, scopes, calls, wrappers, conditionals, errors,
          missingUnlocks, reported, todo>>

----------------------------------------------------------------------------
(* Abstract syntax.  A node is a record with a kind k.  A position is the  *)
(* path of the node from the package: <<function index, statement, ...>>.  *)

NoNode == [k |-> "none"]

\* expressions
Ident(name)          == [k |-> "ident", name |-> name]
Not(x)               == [k |-> "not", x |-> x]
Call(recv, fn, args) == [k |-> "call", recv |-> recv, fn |-> fn, args |-> args]
FuncLit(body)        == [k |-> "funclit", body |-> body]
Invoke(body)         == [k |-> "invoke", lit |-> FuncLit(body)]
OtherExpr            == [k |-> "other_e"]

\* statements
ExprStmt(x)          == [k |-> "expr", x |-> x]
AssignStmt(rhs)      == [k |-> "assign", rhs |-> rhs]
DeferStmt(call)      == [k |-> "defer", call |-> call]
GoStmt(call)         == [k |-> "go", call |-> call]
ReturnStmt(results)  == [k |-> "return", results |-> results]
IfStmt(init, cond, body, els) ==
    [k |-> "if", init |-> init, cond |-> cond, body |-> body, els |-> els]
ForStmt(init, cond, post, body) ==
    [k |-> "for", init |-> init, cond |-> cond, post |-> post, body |-> body]
RangeStmt(x, body)   == [k |-> "range", x |-> x, body |-> body]
SwitchStmt(init, tag, cases) ==
    [k |-> "switch", init |-> init, tag |-> tag, cases |-> cases]
TypeSwitchStmt(init, assign, cases) ==
    [k |-> "typeswitch", init |-> init, assign |-> assign, cases |-> cases]
SelectStmt(cases)    == [k |-> "select", cases |-> cases]
BlockStmt(list)      == [k |-> "block", list |-> list]
OtherStmt            == [k |-> "other"]

\* a function declaration with a body
FuncDecl(recvName, recvType, name, params, body) ==
    [recvName |-> recvName, recvType |-> recvType, name |-> name,
     params |-> params, body |-> body]
\* one field of a parameter list: "a, b bool" is Field(<<"a", "b">>, "bool")
Field(names, type)   == [names |-> names, type |-> type]

\* the statements the tests are written with
Lock(sel)        == ExprStmt(Call(sel, "Lock", <<>>))
RLock(sel)       == ExprStmt(Call(sel, "RLock", <<>>))
Unlock(sel)      == ExprStmt(Call(sel, "Unlock", <<>>))
RUnlock(sel)     == ExprStmt(Call(sel, "RUnlock", <<>>))
DeferUnlock(sel) == DeferStmt(Call(sel, "Unlock", <<>>))
CallStmt(recv, fn, args) == ExprStmt(Call(recv, fn, args))

Range(f) == {f[i] : i \in DOMAIN f}

RECURSIVE Flatten(_)
Flatten(ss) == IF ss = <<>> THEN <<>> ELSE Head(ss) \o Flatten(Tail(ss))

Present(node, p) == IF node.k = "none" THEN <<>> ELSE <<[n |-> node, p |-> p]>>

StmtList(list, p, tag) ==
    [j \in 1..Len(list) |-> [n |-> list[j], p |-> p \o <<tag, j>>]]

CaseList(cases, p) ==
    Flatten([c \in 1..Len(cases) |-> StmtList(cases[c], p, 10 + c)])

\* The children of a node with their positions, in the order ast.Inspect
\* visits them.
Children(node, p) ==
    CASE node.k = "expr"   -> <<[n |-> node.x, p |-> p]>>
      [] node.k = "assign" -> <<[n |-> node.rhs, p |-> p \o <<0>>]>>
      [] node.k = "defer"  -> <<[n |-> node.call, p |-> p \o <<0>>]>>
      [] node.k = "go"     -> <<[n |-> node.call, p |-> p \o <<0>>]>>
      [] node.k = "return" ->
            [i \in 1..Len(node.results) |-> [n |-> node.results[i], p |-> p \o <<i>>]]
      [] node.k = "if" ->
            Present(node.init, p \o <<3>>) \o Present(node.cond, p \o <<0>>)
            \o StmtList(node.body, p, 1) \o Present(node.els, p \o <<2>>)
      [] node.k = "for" ->
            Present(node.init, p \o <<3>>) \o Present(node.cond, p \o <<0>>)
            \o Present(node.post, p \o <<4>>) \o StmtList(node.body, p, 1)
      [] node.k = "range" ->
            Present(node.x, p \o <<0>>) \o StmtList(node.body, p, 1)
      [] node.k = "switch" ->
            Present(node.init, p \o <<3>>) \o Present(node.tag, p \o <<0>>)
            \o CaseList(node.cases, p)
      [] node.k = "typeswitch" ->
            Present(node.init, p \o <<3>>) \o Present(node.assign, p \o <<0>>)
            \o CaseList(node.cases, p)
      [] node.k = "select" -> CaseList(node.cases, p)
      [] node.k = "block"  -> StmtList(node.list, p, 1)
      [] node.k = "call"   ->
            [i \in 1..Len(node.args) |-> [n |-> node.args[i], p |-> p \o <<i>>]]
      [] node.k = "invoke"  -> <<[n |-> node.lit, p |-> p]>>
      [] node.k = "funclit" -> StmtList(node.body, p, 1)
      [] node.k = "not"     -> <<[n |-> node.x, p |-> p \o <<1>>]>>
      [] OTHER -> <<>>

\* every node of a subtree, with its position, in ast.Inspect (preorder) order
RECURSIVE Subtree(_, _)
Subtree(node, p) ==
    LET ch == Children(node, p)
    IN  <<[n |-> node, p |-> p]>>
        \o Flatten([i \in 1..Len(ch) |-> Subtree(ch[i].n, ch[i].p)])

----------------------------------------------------------------------------
(* helpers.go *)

\* A selector string "a.b.c" is the sequence of its identifiers; StrExpr of
\* a selector expression renders exactly these.
StrExpr(e) == e

\* the text before the first dot and the text after it ("" is <<>>)
SplitSelector(selector) ==
    IF Len(selector) > 1
        THEN [root |-> Head(selector), field |-> Tail(selector)]
        ELSE [root |-> IF selector = <<>> THEN "" ELSE Head(selector), field |-> <<>>]

\* the call inside an ExprStmt, an assignment from a call, or a bare call
CallExpr(node) ==
    CASE node.k \in {"call", "invoke"} -> node
      [] node.k = "expr" /\ node.x.k \in {"call", "invoke"} -> node.x
      [] node.k = "assign" /\ node.rhs.k \in {"call", "invoke"} -> node.rhs
      [] OTHER -> NoNode

\* call.Fun as a selector expression x.Sel: a call with a receiver part
SelectorExpr(call) == IF call.k = "call" /\ call.recv # <<>> THEN call ELSE NoNode

\* the receiver x of a call x.M() with M among names; <<>> when there is none
SubjectForCall(node, names) ==
    LET call == CASE node.k \in {"call", "invoke"} -> node
                  [] node.k = "expr" /\ node.x.k \in {"call", "invoke"} -> node.x
                  [] OTHER -> NoNode
        selector == IF call.k = "none" THEN NoNode ELSE SelectorExpr(call)
    IN  IF selector.k = "none" THEN <<>>
        ELSE IF selector.fn \in names THEN selector.recv ELSE <<>>

\* the root identifier of a selector expression
RootSelector(sel) == Head(sel.recv)

lockMethods == {"RLock", "Lock"}
unlockMethods == {"RUnlock", "Unlock"}

subjectForLockCall(node) == SubjectForCall(node, lockMethods)
subjectForUnlockCall(node) == SubjectForCall(node, unlockMethods)

RECURSIVE FirstSubject(_, _)
FirstSubject(stmts, names) ==
    IF stmts = <<>> THEN <<>>
    ELSE IF SubjectForCall(Head(stmts), names) # <<>>
        THEN SubjectForCall(Head(stmts), names)
        ELSE FirstSubject(Tail(stmts), names)

\* defer m.Unlock(), or defer func() { ... m.Unlock() ... }()
subjectForDeferUnlockCall(node) ==
    IF node.k # "defer" THEN <<>>
    ELSE IF SubjectForCall(node.call, unlockMethods) # <<>>
        THEN SubjectForCall(node.call, unlockMethods)
    ELSE IF node.call.k # "invoke" THEN <<>>
    ELSE FirstSubject(node.call.lit.body, unlockMethods)

----------------------------------------------------------------------------
(* scope.go: MutexScope and LockTracker.  Scopes are objects that a tracker *)
(* and its clones refer to by pointer, so they live in a heap (a sequence   *)
(* of scope records) and the trackers hold indices into it.                 *)

NoWrapper == [fqn |-> <<>>, lockPos |-> <<>>]

NewMutexScope(selector, pos) ==
    [selector |-> selector, pos |-> pos, nodes |-> <<>>, unlocked |-> FALSE,
     wrapper |-> NoWrapper]

NewMutexScopeWithWrapper(selector, pos, wrapper) ==
    [selector |-> selector, pos |-> pos, nodes |-> <<>>, unlocked |-> FALSE,
     wrapper |-> wrapper]

\* a tracker with the heap it works on
NewLockTracker ==
    [heap |-> <<>>, onGoing |-> <<>>, defers |-> {}, finished |-> <<>>]

\* Clone copies the two maps (the scope pointers in them are shared) and
\* starts with an empty finished list.
Clone(t) == [t EXCEPT !.finished = <<>>]

\* AddToOngoing / addExprToOngoing: append a node to every held scope
AddToOngoing(t, node, p) ==
    [t EXCEPT !.heap = [i \in DOMAIN t.heap |->
        IF i \in Range(t.onGoing)
            THEN [t.heap[i] EXCEPT !.nodes = Append(@, [n |-> node, p |-> p])]
            ELSE t.heap[i]]]

RECURSIVE AddAllToOngoing(_, _)
AddAllToOngoing(t, parts) ==
    IF parts = <<>> THEN t
    ELSE AddAllToOngoing(AddToOngoing(t, Head(parts).n, Head(parts).p), Tail(parts))

\* a variant that adds every statement as a whole
addStatementToOngoing_Whole(t, stmt, p) == AddToOngoing(t, stmt, p)

\* the prefix parts of a compound statement, the whole of any other one
addStatementToOngoing(t, stmt, p) ==
    CASE stmt.k = "if" ->
            AddAllToOngoing(t, Present(stmt.init, p \o <<3>>) \o Present(stmt.cond, p \o <<0>>))
      [] stmt.k = "for" ->
            AddAllToOngoing(t, Present(stmt.init, p \o <<3>>) \o Present(stmt.cond, p \o <<0>>))
      [] stmt.k = "range" -> AddAllToOngoing(t, Present(stmt.x, p \o <<0>>))
      [] stmt.k = "switch" ->
            AddAllToOngoing(t, Present(stmt.init, p \o <<3>>) \o Present(stmt.tag, p \o <<0>>))
      [] stmt.k = "typeswitch" ->
            AddAllToOngoing(t, Present(stmt.init, p \o <<3>>) \o Present(stmt.assign, p \o <<0>>))
      [] stmt.k = "select" -> t
      [] stmt.k = "block" -> t
      [] OTHER -> AddToOngoing(t, stmt, p)

\* m.onGoing[selector] = scope, for a map kept as a function
MapPut(m, key, val) == [x \in DOMAIN m \cup {key} |-> IF x = key THEN val ELSE m[x]]
MapDelete(m, key) == [x \in DOMAIN m \ {key} |-> m[x]]
MapGet(m, key, default) == IF key \in DOMAIN m THEN m[key] ELSE default

\* a variant that opens a new scope in place of the one that is ongoing
StartLock_Replace(t, selector, pos) ==
    [t EXCEPT !.heap = Append(@, NewMutexScope(selector, pos)),
              !.onGoing = MapPut(@, selector, Len(t.heap) + 1)]

StartLock(t, selector, pos) ==
    IF selector \in DOMAIN t.onGoing THEN t
    ELSE [t EXCEPT !.heap = Append(@, NewMutexScope(selector, pos)),
                   !.onGoing = MapPut(@, selector, Len(t.heap) + 1)]

\* a variant that opens a new scope in place of the one that is ongoing
StartLockWithWrapper_Replace(t, selector, pos, wrapper) ==
    [t EXCEPT !.heap = Append(@, NewMutexScopeWithWrapper(selector, pos, wrapper)),
              !.onGoing = MapPut(@, selector, Len(t.heap) + 1)]

StartLockWithWrapper(t, selector, pos, wrapper) ==
    IF selector \in DOMAIN t.onGoing THEN t
    ELSE [t EXCEPT !.heap = Append(@, NewMutexScopeWithWrapper(selector, pos, wrapper)),
                   !.onGoing = MapPut(@, selector, Len(t.heap) + 1)]

\* a variant that marks the scope unlocked and leaves it ongoing
EndLock_Keep(t, selector) ==
    IF selector \notin DOMAIN t.onGoing THEN t
    ELSE [t EXCEPT !.heap[t.onGoing[selector]].unlocked = TRUE,
                   !.finished = Append(@, t.onGoing[selector])]

EndLock(t, selector) ==
    IF selector \notin DOMAIN t.onGoing THEN t
    ELSE [t EXCEPT !.heap[t.onGoing[selector]].unlocked = TRUE,
                   !.finished = Append(@, t.onGoing[selector]),
                   !.onGoing = MapDelete(@, selector)]

AddDeferredUnlock(t, selector) == [t EXCEPT !.defers = @ \cup {selector}]

\* The permutations of a set: the orders in which a Go map over it can be
\* ranged.
Perms(S) ==
    {f \in [1..Cardinality(S) -> S] : \A i, j \in DOMAIN f : f[i] = f[j] => i = j}

\* Every range over a map picks its own order.  The orders of one function
\* are a function ord from the place of the range (the block that ends, the
\* return that is checked) to a permutation.
BlockKey(p) == p \o <<99>>

RECURSIVE EndAll(_, _, _)
EndAll(t, sels, unlock) ==
    IF sels = <<>> THEN t
    ELSE LET id == t.onGoing[Head(sels)]
             t1 == [t EXCEPT !.heap[id].unlocked = (unlock \/ @),
                             !.finished = Append(@, id),
                             !.onGoing = MapDelete(@, Head(sels))]
         IN  EndAll(t1, Tail(sels), unlock)

\* a variant that forgets the scopes that are still held without a deferred
\* unlock
EndBlock_Forget(t, ord) ==
    LET Deferred(s) == s \in t.defers /\ s \in DOMAIN t.onGoing
        t1 == EndAll(t, SelectSeq(ord, Deferred), TRUE)
    IN  [t1 EXCEPT !.onGoing = <<>>, !.defers = {}]

\* EndBlock: the deferred selectors that are held are finished unlocked, the
\* other held ones are finished as they are; ord is the order the maps are
\* ranged in.
EndBlock(t, ord) ==
    LET Deferred(s) == s \in t.defers /\ s \in DOMAIN t.onGoing
        Left(s) == s \notin t.defers /\ s \in DOMAIN t.onGoing
        t1 == EndAll(t, SelectSeq(ord, Deferred), TRUE)
        t2 == EndAll(t1, SelectSeq(ord, Left), FALSE)
    IN  [t2 EXCEPT !.onGoing = <<>>, !.defers = {}]

HasScopes(t) == Len(t.finished) > 0

\* the part of Track before it recurses
TrackOne(t, stmt, p, addToOngoing) ==
    LET t1 == IF addToOngoing THEN addStatementToOngoing(t, stmt, p) ELSE t
        t2 == IF subjectForLockCall(stmt) # <<>>
                THEN StartLock(t1, StrExpr(subjectForLockCall(stmt)), p)
                ELSE t1
        t3 == IF subjectForDeferUnlockCall(stmt) # <<>>
                THEN AddDeferredUnlock(t2, StrExpr(subjectForDeferUnlockCall(stmt)))
                ELSE t2
    IN  IF subjectForUnlockCall(stmt) # <<>>
            THEN EndLock(t3, StrExpr(subjectForUnlockCall(stmt)))
            ELSE t3

\* a variant in which the parent goes on with the maps of the branch
MergeBranch_Maps(t, branch) == [branch EXCEPT !.finished = t.finished \o @]

\* a branch analysed on a clone: the clone's finished scopes (and the heap
\* it worked on) come back to the parent, its maps do not
MergeBranch(t, branch) ==
    [t EXCEPT !.heap = branch.heap, !.finished = @ \o branch.finished]

RECURSIVE Track(_, _, _, _, _)
RECURSIVE TrackList(_, _, _, _, _, _, _)
RECURSIVE TrackCases(_, _, _, _, _, _)
RECURSIVE trackNestedStatements(_, _, _, _, _)

Track(t, stmt, p, addToOngoing, ord) ==
    trackNestedStatements(TrackOne(t, stmt, p, addToOngoing), stmt, p, addToOngoing, ord)

\* for _, inner := range list { t.Track(inner, addToOngoing) }, from item j on
TrackList(t, list, p, tag, j, addToOngoing, ord) ==
    IF j > Len(list) THEN t
    ELSE TrackList(Track(t, list[j], p \o <<tag, j>>, addToOngoing, ord),
                   list, p, tag, j + 1, addToOngoing, ord)

\* a variant that runs the case clauses one after the other on the tracker
\* of the switch itself
TrackCases_Shared(t, cases, p, c, addToOngoing, ord) ==
    IF c > Len(cases) THEN t
    ELSE TrackCases(TrackList(t, cases[c], p, 10 + c, 1, addToOngoing, ord),
                    cases, p, c + 1, addToOngoing, ord)

\* each case clause on a clone of its own, finalized and merged back
TrackCases(t, cases, p, c, addToOngoing, ord) ==
    IF c > Len(cases) THEN t
    ELSE LET caseTracker == TrackList(Clone(t), cases[c], p, 10 + c, 1, addToOngoing, ord)
         IN  TrackCases(MergeBranch(t, EndBlock(caseTracker, ord[BlockKey(p \o <<10 + c>>)])),
                        cases, p, c + 1, addToOngoing, ord)

trackNestedStatements(t, stmt, p, addToOngoing, ord) ==
    CASE stmt.k = "if" ->
            LET ifTracker == TrackList(Clone(t), stmt.body, p, 1, 1, addToOngoing, ord)
                t1 == MergeBranch(t, EndBlock(ifTracker, ord[BlockKey(p \o <<1>>)]))
                elseTracker ==
                    CASE stmt.els.k = "block" ->
                            TrackList(Clone(t1), stmt.els.list, p \o <<2>>, 1, 1, addToOngoing, ord)
                      [] stmt.els.k = "if" ->
                            Track(Clone(t1), stmt.els, p \o <<2>>, addToOngoing, ord)
                      [] OTHER -> Clone(t1)
            IN  IF stmt.els.k = "none" THEN t1
                ELSE MergeBranch(t1, EndBlock(elseTracker, ord[BlockKey(p \o <<2>>)]))
      [] stmt.k \in {"for", "range"} ->
            TrackList(t, stmt.body, p, 1, 1, addToOngoing, ord)
      [] stmt.k \in {"switch", "typeswitch", "select"} ->
            TrackCases(t, stmt.cases, p, 1, addToOngoing, ord)
      [] stmt.k = "block" ->
            TrackList(t, stmt.list, p, 1, 1, addToOngoing, ord)
      [] OTHER -> t

\* the scopes a finished tracker holds, as values
Scopes(t) == [i \in 1..Len(t.finished) |-> t.heap[t.finished[i]]]

----------------------------------------------------------------------------
(* fqn.go, analyzer.go (GetCallInfo), visitor.go *)

\* What the type checker knows (types.Info), fixed for the analysed
\* packages: the identifiers that name imported packages, the identifiers
\* bound to variables of function type, the fields of mutex type.  Every
\* other receiver expression has the one struct type of the package.
PkgNames == {"time", "fmt"}
FuncVars == {"fv"}
MutexFields == {"m", "n", "mu"}
ThisPkg == "p"
StructType == "T"

\* FQN "pkg.Recv:Name" as the triple of its parts
FromCallInfo(pkg, name) == <<pkg>> \o name

GetCallInfo(call) ==
    LET no == [ok |-> FALSE, pkg |-> "", name |-> <<>>]
    IN  CASE call.k # "call" -> no
          [] call.recv # <<>> ->
                IF Len(call.recv) = 1 /\ Head(call.recv) \in PkgNames
                    THEN [ok |-> TRUE, pkg |-> Head(call.recv), name |-> <<"", call.fn>>]
                ELSE IF call.recv[Len(call.recv)] \in MutexFields
                    THEN [ok |-> TRUE, pkg |-> "sync", name |-> <<"RWMutex", call.fn>>]
                ELSE [ok |-> TRUE, pkg |-> ThisPkg, name |-> <<StructType, call.fn>>]
          [] OTHER ->
                IF call.fn \in FuncVars THEN no
                ELSE [ok |-> TRUE, pkg |-> ThisPkg, name |-> <<"", call.fn>>]

funcFQN(fn) == <<ThisPkg, fn.recvType, fn.name>>

\* the selectors a tracker can meet in a function: the subjects of its lock
\* calls and, with wrappers known, <receiver>.<field> of its method calls
FuncSels(fi, fields) ==
    LET nodes == Subtree(BlockStmt(prog[fi].body), <<fi>>)
        callNodes == {nodes[i].n : i \in {j \in DOMAIN nodes :
                         nodes[j].n.k = "call" /\ nodes[j].n.recv # <<>>}}
    IN  {c.recv : c \in {d \in callNodes : d.fn \in lockMethods}}
        \cup {<<Head(c.recv)>> \o f : c \in callNodes, f \in fields}

\* analyzeDirectLocks: the tracker over the top-level statements of a body
analyzeDirectLocks(fi, ord) ==
    EndBlock(TrackList(NewLockTracker, prog[fi].body, <<fi>>, 1, 1, TRUE, ord),
             ord[BlockKey(<<fi>>)])

RECURSIVE recordCalls(_)
recordCalls(body) ==
    IF body = <<>> THEN <<>>
    ELSE LET call == CallExpr(Head(body))
             info == IF call.k = "none" THEN [ok |-> FALSE] ELSE GetCallInfo(call)
         IN  (IF info.ok THEN <<FromCallInfo(info.pkg, info.name)>> ELSE <<>>)
             \o recordCalls(Tail(body))

----------------------------------------------------------------------------
(* wrappers.go *)

WrapperLock == "WrapperLock"
WrapperUnlock == "WrapperUnlock"

WrapperMethod(fqn, mutexField, kind, lockPos) ==
    [MutexField |-> mutexField, Kind |-> kind, FQN |-> fqn, LockPos |-> lockPos]

Register(reg, fqn, mutexField, kind, lockPos) ==
    MapPut(reg, fqn, WrapperMethod(fqn, mutexField, kind, lockPos))

IsLockWrapper(reg, fqn) == fqn \in DOMAIN reg /\ reg[fqn].Kind = WrapperLock
IsUnlockWrapper(reg, fqn) == fqn \in DOMAIN reg /\ reg[fqn].Kind = WrapperUnlock

RECURSIVE FirstLockOnly(_, _)

\* a variant that takes the first scope with a field, unlocked or not
FirstLockOnly_Any(ss, i) ==
    IF i > Len(ss) THEN 0
    ELSE IF SplitSelector(ss[i].selector).field # <<>>
        THEN i
        ELSE FirstLockOnly(ss, i + 1)

\* the first scope that was not unlocked and whose selector has a field:
\* its index, or 0
FirstLockOnly(ss, i) ==
    IF i > Len(ss) THEN 0
    ELSE IF ~ss[i].unlocked /\ SplitSelector(ss[i].selector).field # <<>>
        THEN i
        ELSE FirstLockOnly(ss, i + 1)

\* getUnlockOnlyField over the top-level statements from item j on
RECURSIVE UnlockScan(_, _, _, _)
UnlockScan(body, fi, j, acc) ==
    IF j > Len(body) THEN acc
    ELSE LET stmt == body[j]
             a1 == IF subjectForLockCall(stmt) # <<>>
                     THEN [acc EXCEPT !.hasLock = TRUE] ELSE acc
             a2 == IF subjectForUnlockCall(stmt) # <<>>
                     THEN [a1 EXCEPT
                            !.unlockField = SplitSelector(StrExpr(subjectForUnlockCall(stmt))).field,
                            !.unlockPos = <<fi, 1, j>>]
                     ELSE a1
         IN  UnlockScan(body, fi, j + 1, a2)

getUnlockOnlyField(fi) ==
    LET r == UnlockScan(prog[fi].body, fi, 1,
                        [hasLock |-> FALSE, unlockField |-> <<>>, unlockPos |-> <<>>])
    IN  IF r.hasLock \/ r.unlockField = <<>>
            THEN [field |-> <<>>, pos |-> <<>>]
            ELSE [field |-> r.unlockField, pos |-> r.unlockPos]

RECURSIVE RegisterUnlockOnly(_, _)
RegisterUnlockOnly(reg, fi) ==
    IF fi > Len(prog) THEN reg
    ELSE LET fqn == funcFQN(prog[fi])
             u == getUnlockOnlyField(fi)
         IN  IF fqn \in DOMAIN reg \/ u.field = <<>>
                THEN RegisterUnlockOnly(reg, fi + 1)
                ELSE RegisterUnlockOnly(Register(reg, fqn, u.field, WrapperUnlock, u.pos), fi + 1)

IdentifyWrappers(sc) ==
    LET locking == {fqn \in DOMAIN sc : FirstLockOnly(sc[fqn], 1) # 0}
        reg == [fqn \in locking |->
                   LET scope == sc[fqn][FirstLockOnly(sc[fqn], 1)]
                   IN  WrapperMethod(fqn, SplitSelector(scope.selector).field,
                                     WrapperLock, scope.pos)]
    IN  RegisterUnlockOnly(reg, 1)

\* trackDeferredWrapperCall
trackDeferredWrapperCall(t, reg, deferStmt) ==
    LET call == deferStmt.call
        info == GetCallInfo(call)
        fqn == FromCallInfo(info.pkg, info.name)
    IN  IF ~info.ok THEN t
        ELSE IF ~IsUnlockWrapper(reg, fqn) THEN t
        ELSE IF SelectorExpr(call).k = "none" THEN t
        ELSE AddDeferredUnlock(t, <<RootSelector(call)>> \o reg[fqn].MutexField)

\* trackWrapperCall
trackWrapperCall(t, reg, stmt, p) ==
    LET call == CallExpr(stmt)
        info == GetCallInfo(call)
        fqn == FromCallInfo(info.pkg, info.name)
        effectiveSelector == <<RootSelector(call)>> \o reg[fqn].MutexField
        t1 == IF reg[fqn].Kind = WrapperLock
                THEN StartLockWithWrapper(t, effectiveSelector, p,
                        [fqn |-> reg[fqn].FQN, lockPos |-> reg[fqn].LockPos])
                ELSE EndLock(t, effectiveSelector)
    IN  IF call.k = "none" THEN t
        ELSE IF ~info.ok THEN t
        ELSE IF fqn \notin DOMAIN reg THEN t
        ELSE IF SelectorExpr(call).k = "none" THEN t
        ELSE IF stmt.k = "defer" THEN trackDeferredWrapperCall(t1, reg, stmt)
        ELSE t1

\* a variant that adds the statement to the held scopes last
TrackWithWrappers_AddLast(t, reg, stmt, p, ord) ==
    AddToOngoing(Track(trackWrapperCall(t, reg, stmt, p), stmt, p, FALSE, ord), stmt, p)

\* TrackWithWrappers: the whole statement goes to the held scopes, then the
\* wrapper call, then the direct tracker without adding again
TrackWithWrappers(t, reg, stmt, p, ord) ==
    Track(trackWrapperCall(AddToOngoing(t, stmt, p), reg, stmt, p), stmt, p, FALSE, ord)

RECURSIVE AnalyzeStatements(_, _, _, _, _, _, _)
RECURSIVE analyzeNestedStatements(_, _, _, _, _)
RECURSIVE analyzeMutuallyExclusiveCases(_, _, _, _, _, _, _)

\* AnalyzeStatements over list, from item j on
AnalyzeStatements(t, reg, list, p, tag, j, ord) ==
    IF j > Len(list) THEN t
    ELSE LET q == p \o <<tag, j>>
             t1 == TrackWithWrappers(t, reg, list[j], q, ord)
             t2 == analyzeNestedStatements(t1, reg, list[j], q, ord)
         IN  AnalyzeStatements(t2, reg, list, p, tag, j + 1, ord)

\* every case starts from the saved onGoing map, which is restored at the end
analyzeMutuallyExclusiveCases(t, reg, cases, p, c, savedOngoing, ord) ==
    IF c > Len(cases) THEN [t EXCEPT !.onGoing = savedOngoing]
    ELSE analyzeMutuallyExclusiveCases(
            AnalyzeStatements([t EXCEPT !.onGoing = savedOngoing], reg, cases[c],
                              p, 10 + c, 1, ord),
            reg, cases, p, c + 1, savedOngoing, ord)

analyzeNestedStatements(t, reg, stmt, p, ord) ==
    CASE stmt.k = "if" ->
            LET t1 == AnalyzeStatements(t, reg, stmt.body, p, 1, 1, ord)
            IN  CASE stmt.els.k = "block" ->
                        AnalyzeStatements(t1, reg, stmt.els.list, p \o <<2>>, 1, 1, ord)
                  [] stmt.els.k = "if" ->
                        analyzeNestedStatements(t1, reg, stmt.els, p \o <<2>>, ord)
                  [] OTHER -> t1
      [] stmt.k \in {"for", "range"} ->
            AnalyzeStatements(t, reg, stmt.body, p, 1, 1, ord)
      [] stmt.k \in {"switch", "select"} ->
            analyzeMutuallyExclusiveCases(t, reg, stmt.cases, p, 1, t.onGoing, ord)
      [] stmt.k = "block" ->
            AnalyzeStatements(t, reg, stmt.list, p, 1, 1, ord)
      [] OTHER -> t

\* Visitor.analyzeWithWrappers
analyzeWithWrappers(fi, reg, ord) ==
    EndBlock(AnalyzeStatements(NewLockTracker, reg, prog[fi].body, <<fi>>, 1, 1, ord),
             ord[BlockKey(<<fi>>)])

----------------------------------------------------------------------------
(* conditional.go: ConditionalLockRegistry *)

ConditionalLock(paramIndex, paramName, selector, negated) ==
    [ParamIndex |-> paramIndex, ParamName |-> paramName, Selector |-> selector,
     Negated |-> negated]

\* the map of bool parameter names to their indices, built field by field
\* (indices start at 0)
RECURSIVE BoolParamsFrom(_, _, _)
BoolParamsFrom(fields, paramIndex, acc) ==
    IF fields = <<>> THEN acc
    ELSE LET f == Head(fields)
             n == Len(f.names)
         IN  IF f.type = "bool"
                THEN BoolParamsFrom(Tail(fields), paramIndex + n,
                        [x \in DOMAIN acc \cup Range(f.names) |->
                            IF \E i \in 1..n : f.names[i] = x
                                THEN paramIndex - 1
                                     + (CHOOSE i \in 1..n : f.names[i] = x
                                            /\ \A j \in (i + 1)..n : f.names[j] # x)
                                ELSE acc[x]])
                ELSE BoolParamsFrom(Tail(fields),
                        paramIndex + n + (IF n = 0 THEN 1 ELSE 0), acc)

BoolParams(fn) == BoolParamsFrom(fn.params, 0, <<>>)

\* extractBoolParamCondition: "lock" or "!lock" for a bool parameter
extractBoolParamCondition(cond, boolParams) ==
    CASE cond.k = "ident" /\ cond.name \in DOMAIN boolParams ->
            [name |-> cond.name, negated |-> FALSE]
      [] cond.k = "not" /\ cond.x.k = "ident" /\ cond.x.name \in DOMAIN boolParams ->
            [name |-> cond.x.name, negated |-> TRUE]
      [] OTHER -> [name |-> "", negated |-> FALSE]

\* findLockInBlock: the selector of the first (possibly deferred) lock call
RECURSIVE findLockInBlock(_)
findLockInBlock(list) ==
    IF list = <<>> THEN <<>>
    ELSE LET stmt == Head(list)
         IN  IF SubjectForCall(stmt, lockMethods) # <<>>
                THEN StrExpr(SubjectForCall(stmt, lockMethods))
             ELSE IF stmt.k = "defer" /\ SubjectForCall(stmt.call, lockMethods) # <<>>
                THEN StrExpr(SubjectForCall(stmt.call, lockMethods))
             ELSE findLockInBlock(Tail(list))

RECURSIVE AnalyzeBody(_, _, _)
AnalyzeBody(body, boolParams, acc) ==
    IF body = <<>> THEN acc
    ELSE LET stmt == Head(body)
             c == IF stmt.k = "if" THEN extractBoolParamCondition(stmt.cond, boolParams)
                  ELSE [name |-> "", negated |-> FALSE]
             selector == IF stmt.k = "if" THEN findLockInBlock(stmt.body) ELSE <<>>
         IN  IF c.name = "" \/ selector = <<>>
                THEN AnalyzeBody(Tail(body), boolParams, acc)
                ELSE AnalyzeBody(Tail(body), boolParams,
                        Append(acc, ConditionalLock(boolParams[c.name], c.name,
                                                    selector, c.negated)))

\* AnalyzeFunc: the conditional locks of one function added to the registry
AnalyzeFunc(locks, fqn, fn) ==
    LET found == AnalyzeBody(fn.body, BoolParams(fn), <<>>)
    IN  IF DOMAIN BoolParams(fn) = {} \/ found = <<>> THEN locks
        ELSE MapPut(locks, fqn, MapGet(locks, fqn, <<>>) \o found)

\* the callee's conditional locks, one after the other, against one call
RECURSIVE InheritFrom(_, _, _, _)
InheritFrom(mine, calleeLocks, call, boolParams) ==
    IF calleeLocks = <<>> THEN mine
    ELSE LET cl == Head(calleeLocks)
             arg == call.args[cl.ParamIndex + 1]
             forwarded == cl.ParamIndex < Len(call.args)
                          /\ arg.k = "ident" /\ arg.name \in DOMAIN boolParams
             alreadyHave == \E i \in DOMAIN mine :
                               /\ mine[i].ParamIndex = boolParams[arg.name]
                               /\ mine[i].Selector = cl.Selector
                               /\ mine[i].Negated = cl.Negated
         IN  IF forwarded /\ ~alreadyHave
                THEN InheritFrom(Append(mine, ConditionalLock(boolParams[arg.name],
                                    arg.name, cl.Selector, cl.Negated)),
                                 Tail(calleeLocks), call, boolParams)
                ELSE InheritFrom(mine, Tail(calleeLocks), call, boolParams)

\* the calls of one function body, in ast.Inspect order
RECURSIVE InspectCalls(_, _, _, _)
InspectCalls(locks, fqn, nodes, boolParams) ==
    IF nodes = <<>> THEN locks
    ELSE LET call == Head(nodes).n
             info == GetCallInfo(call)
             calleeLocks == MapGet(locks, FromCallInfo(info.pkg, info.name), <<>>)
             mine == MapGet(locks, fqn, <<>>)
             got == InheritFrom(mine, calleeLocks, call, boolParams)
         IN  IF call.k # "call" \/ ~info.ok \/ calleeLocks = <<>> \/ got = mine
                THEN InspectCalls(locks, fqn, Tail(nodes), boolParams)
                ELSE InspectCalls(MapPut(locks, fqn, got), fqn, Tail(nodes), boolParams)

\* one round of the propagation loop over the functions from fi on
RECURSIVE PropagateRound(_, _)
PropagateRound(locks, fi) ==
    IF fi > Len(prog) THEN locks
    ELSE LET fn == prog[fi]
         IN  IF DOMAIN BoolParams(fn) = {} THEN PropagateRound(locks, fi + 1)
             ELSE PropagateRound(
                    InspectCalls(locks, funcFQN(fn),
                                 Subtree(BlockStmt(fn.body), <<fi>>), BoolParams(fn)),
                    fi + 1)

\* a variant that stops after one round
PropagateConditionalLocks_Once(locks) == PropagateRound(locks, 1)

\* for changed { ... }
RECURSIVE PropagateConditionalLocks(_)
PropagateConditionalLocks(locks) ==
    LET next == PropagateRound(locks, 1)
    IN  IF next = locks THEN locks ELSE PropagateConditionalLocks(next)

extractBoolLiteral(expr) ==
    CASE expr.k = "ident" /\ expr.name = "true"  -> [value |-> TRUE, ok |-> TRUE]
      [] expr.k = "ident" /\ expr.name = "false" -> [value |-> FALSE, ok |-> TRUE]
      [] OTHER -> [value |-> FALSE, ok |-> FALSE]

\* a variant that takes a conditional lock on any selector
ShouldSkipLock_AnySelector(locks, fqn, call, lockSelector) ==
    \E i \in DOMAIN MapGet(locks, fqn, <<>>) :
        LET cl == locks[fqn][i]
            lit == extractBoolLiteral(call.args[cl.ParamIndex + 1])
        IN  /\ cl.ParamIndex < Len(call.args)
            /\ lit.ok
            /\ IF cl.Negated THEN lit.value ELSE ~lit.value

\* ShouldSkipLock: some conditional lock on the held selector is proven not
\* to be taken by a literal argument
ShouldSkipLock(locks, fqn, call, lockSelector) ==
    \E i \in DOMAIN MapGet(locks, fqn, <<>>) :
        LET cl == locks[fqn][i]
            lit == extractBoolLiteral(call.args[cl.ParamIndex + 1])
        IN  /\ cl.Selector = lockSelector
            /\ cl.ParamIndex < Len(call.args)
            /\ lit.ok
            /\ IF cl.Negated THEN lit.value ELSE ~lit.value

\* The orchestration of the registry (the first pass fed function by
\* function, the propagation run to its fixpoint before the analyzer is
\* constructed) as the design document states it.
FeedConditional(locks, fi) == AnalyzeFunc(locks, funcFQN(prog[fi]), prog[fi])

PropagateAll(locks) == PropagateConditionalLocks(locks)

----------------------------------------------------------------------------
(* branch.go: BranchTracker *)

BranchLockInfo(selector, pos, wrapper) ==
    [selector |-> selector, pos |-> pos, wrapper |-> wrapper]

MissingUnlock(lockInfo, returnPos) == [lockInfo |-> lockInfo, returnPos |-> returnPos]

NewBranchTrackerWithWrappers == [ongoing |-> <<>>, defers |-> {}, errors |-> <<>>]

\* a branch analysed on the tracker itself instead of on a clone
BranchDone_Shared(t, branch) == branch

\* a clone has its own maps and appends to the same error list
BranchDone(t, branch) == [t EXCEPT !.errors = branch.errors]

\* the effective selector of a call to a wrapper of the given kind, or <<>>
WrapperSelector(reg, call, kind) ==
    LET info == GetCallInfo(call)
        fqn == FromCallInfo(info.pkg, info.name)
    IN  IF call.k = "none" THEN <<>>
        ELSE IF ~info.ok THEN <<>>
        ELSE IF fqn \notin DOMAIN reg THEN <<>>
        ELSE IF reg[fqn].Kind # kind THEN <<>>
        ELSE IF SelectorExpr(call).k = "none" THEN <<>>
        ELSE <<RootSelector(call)>> \o reg[fqn].MutexField

checkWrapperLockCall(t, reg, stmt, p) ==
    LET call == CallExpr(stmt)
        effectiveSelector == WrapperSelector(reg, call, WrapperLock)
        wrapper == reg[FromCallInfo(GetCallInfo(call).pkg, GetCallInfo(call).name)]
    IN  IF effectiveSelector = <<>> \/ effectiveSelector \in DOMAIN t.ongoing THEN t
        ELSE [t EXCEPT !.ongoing = MapPut(@, effectiveSelector,
                BranchLockInfo(effectiveSelector, p,
                               [fqn |-> wrapper.FQN, lockPos |-> wrapper.LockPos]))]

checkWrapperUnlockCall(t, reg, stmt) ==
    LET effectiveSelector == WrapperSelector(reg, CallExpr(stmt), WrapperUnlock)
    IN  IF effectiveSelector = <<>> THEN t
        ELSE [t EXCEPT !.ongoing = MapDelete(@, effectiveSelector)]

checkDeferredWrapperUnlock(t, reg, stmt) ==
    LET effectiveSelector ==
            IF stmt.k = "defer" THEN WrapperSelector(reg, stmt.call, WrapperUnlock) ELSE <<>>
    IN  IF effectiveSelector = <<>> THEN t
        ELSE [t EXCEPT !.defers = @ \cup {effectiveSelector}]

\* checkReturnWithLocks: one error per held selector without a deferred
\* unlock, in the order ord ranges the map
checkReturnWithLocks(t, p, ord) ==
    LET Held(s) == s \in DOMAIN t.ongoing /\ s \notin t.defers
        held == SelectSeq(ord, Held)
    IN  [t EXCEPT !.errors = @ \o
            [i \in 1..Len(held) |-> MissingUnlock(t.ongoing[held[i]], p)]]

\* analyzeStmt before the return check and the recursion
analyzeOne(t, reg, stmt, p) ==
    LET t1 == IF subjectForLockCall(stmt) # <<>>
                  /\ StrExpr(subjectForLockCall(stmt)) \notin DOMAIN t.ongoing
                THEN [t EXCEPT !.ongoing = MapPut(@, StrExpr(subjectForLockCall(stmt)),
                        BranchLockInfo(StrExpr(subjectForLockCall(stmt)), p, NoWrapper))]
                ELSE t
        t2 == checkWrapperLockCall(t1, reg, stmt, p)
        t3 == IF subjectForDeferUnlockCall(stmt) # <<>>
                THEN [t2 EXCEPT !.defers = @ \cup {StrExpr(subjectForDeferUnlockCall(stmt))}]
                ELSE t2
        t4 == checkDeferredWrapperUnlock(t3, reg, stmt)
        t5 == IF subjectForUnlockCall(stmt) # <<>>
                THEN [t4 EXCEPT !.ongoing = MapDelete(@, StrExpr(subjectForUnlockCall(stmt)))]
                ELSE t4
    IN  checkWrapperUnlockCall(t5, reg, stmt)

RECURSIVE analyzeStmt(_, _, _, _, _)
RECURSIVE BranchStatements(_, _, _, _, _, _, _)
RECURSIVE BranchCases(_, _, _, _, _, _)
RECURSIVE analyzeNestedStmt(_, _, _, _, _)

analyzeStmt(t, reg, stmt, p, ord) ==
    LET t1 == analyzeOne(t, reg, stmt, p)
    IN  IF stmt.k = "return" THEN checkReturnWithLocks(t1, p, ord[p])
        ELSE analyzeNestedStmt(t1, reg, stmt, p, ord)

\* BranchTracker.AnalyzeStatements over list, from item j on
BranchStatements(t, reg, list, p, tag, j, ord) ==
    IF j > Len(list) THEN t
    ELSE BranchStatements(analyzeStmt(t, reg, list[j], p \o <<tag, j>>, ord),
                          reg, list, p, tag, j + 1, ord)

\* every clause on a clone of the tracker
BranchCases(t, reg, cases, p, c, ord) ==
    IF c > Len(cases) THEN t
    ELSE BranchCases(
            BranchDone(t, BranchStatements(t, reg, cases[c], p, 10 + c, 1, ord)),
            reg, cases, p, c + 1, ord)

analyzeNestedStmt(t, reg, stmt, p, ord) ==
    LET t0 == IF stmt.k \in {"if", "for", "switch", "typeswitch"} /\ stmt.init.k # "none"
                THEN analyzeStmt(t, reg, stmt.init, p \o <<3>>, ord)
                ELSE t
    IN  CASE stmt.k = "if" ->
                LET t1 == BranchDone(t0, BranchStatements(t0, reg, stmt.body, p, 1, 1, ord))
                IN  CASE stmt.els.k = "block" ->
                            BranchDone(t1, BranchStatements(t1, reg, stmt.els.list,
                                                            p \o <<2>>, 1, 1, ord))
                      [] stmt.els.k = "if" ->
                            BranchDone(t1, analyzeStmt(t1, reg, stmt.els, p \o <<2>>, ord))
                      [] OTHER -> t1
          [] stmt.k \in {"for", "range"} ->
                BranchDone(t0, BranchStatements(t0, reg, stmt.body, p, 1, 1, ord))
          [] stmt.k \in {"switch", "typeswitch", "select"} ->
                BranchCases(t0, reg, stmt.cases, p, 1, ord)
          [] stmt.k = "block" ->
                BranchStatements(t0, reg, stmt.list, p, 1, 1, ord)
          [] OTHER -> t0

\* a variant that also checks the held locks where the body ends
BranchErrors_AtEnd(fi, reg, ord) ==
    checkReturnWithLocks(
        BranchStatements(NewBranchTrackerWithWrappers, reg, prog[fi].body, <<fi>>, 1, 1, ord),
        <<fi>>, ord[BlockKey(<<fi>>)]).errors

\* the errors of one function body
BranchErrors(fi, reg, ord) ==
    BranchStatements(NewBranchTrackerWithWrappers, reg, prog[fi].body, <<fi>>, 1, 1, ord).errors

----------------------------------------------------------------------------
(* analyzer.go *)

LintError(origin, secondLock, wrapper) ==
    [origin |-> origin, secondLock |-> secondLock, wrapper |-> wrapper]

MissingUnlockError(lockPos, returnPos, wrapper) ==
    [lockPos |-> lockPos, returnPos |-> returnPos, wrapper |-> wrapper]

\* the analyzer's result lists and its reported map; crashed once a
\* recursion has exhausted the goroutine stack
NewAnalyzer ==
    [errors |-> <<>>, missingUnlocks |-> <<>>, reported |-> {}, crashed |-> FALSE]

\* a variant that records every finding
recordError_All(a, origin, secondLock, wrapper) ==
    [a EXCEPT !.reported = @ \cup {secondLock},
              !.errors = Append(@, LintError(origin, secondLock, wrapper))]

recordError(a, origin, secondLock, wrapper) ==
    IF secondLock \in a.reported THEN a
    ELSE [a EXCEPT !.reported = @ \cup {secondLock},
                   !.errors = Append(@, LintError(origin, secondLock, wrapper))]

\* a variant that compares the field part only
HasSameSelector_Field(s, other) ==
    SplitSelector(s.selector).field = SplitSelector(other.selector).field

HasSameSelector(s, other) == s.selector = other.selector

\* hasTransitiveLock with its memo.  The memo gets an entry for fqn only
\* when the call for fqn returns, so a call that reaches a function whose
\* own call is still on the stack recurses without end: overflow.
RECURSIVE hasTransitiveLock(_, _, _, _)
RECURSIVE AnyCallee(_, _, _, _)

hasTransitiveLock(fqn, scope, checked, stack) ==
    IF fqn \in DOMAIN checked
        THEN [result |-> checked[fqn], checked |-> checked, overflow |-> FALSE]
    ELSE IF fqn \in stack
        THEN [result |-> FALSE, checked |-> checked, overflow |-> TRUE]
    ELSE IF fqn \in DOMAIN scopes
            /\ \E i \in DOMAIN scopes[fqn] : HasSameSelector(scopes[fqn][i], scope)
        THEN [result |-> TRUE, checked |-> MapPut(checked, fqn, TRUE), overflow |-> FALSE]
    ELSE IF fqn \notin DOMAIN calls
        THEN [result |-> FALSE, checked |-> MapPut(checked, fqn, FALSE), overflow |-> FALSE]
    ELSE LET r == AnyCallee(calls[fqn], scope, checked, stack \cup {fqn})
         IN  IF r.overflow THEN r
             ELSE [r EXCEPT !.checked = MapPut(@, fqn, r.result)]

\* for _, callee := range calls { if a.hasTransitiveLock(callee, ...) ... }
AnyCallee(callees, scope, checked, stack) ==
    IF callees = <<>>
        THEN [result |-> FALSE, checked |-> checked, overflow |-> FALSE]
    ELSE LET r == hasTransitiveLock(Head(callees), scope, checked, stack)
         IN  IF r.overflow \/ r.result THEN r
             ELSE AnyCallee(Tail(callees), scope, r.checked, stack)

\* a variant that prunes nothing
isCallOnDifferentReceiver_Never(call, scope) == FALSE

isCallOnDifferentReceiver(call, scope) ==
    IF SelectorExpr(call).k = "none" THEN FALSE
    ELSE IF SplitSelector(scope.selector).root = "" THEN FALSE
    ELSE RootSelector(call) # SplitSelector(scope.selector).root

\* a variant that lets every direct acquisition pass
checkDirectReentrantLock_Pass(a, scope, call, p) == a

checkDirectReentrantLock(a, scope, call, p) ==
    IF SubjectForCall(call, lockMethods) # <<>>
        /\ StrExpr(SubjectForCall(call, lockMethods)) = scope.selector
        THEN recordError(a, scope.pos, p, scope.wrapper)
        ELSE a

\* a variant that gives up the run at a call it cannot resolve
checkTransitiveReentrantLock_Abort(a, scope, call, p) ==
    LET info == GetCallInfo(call)
        fqn == FromCallInfo(info.pkg, info.name)
        r == hasTransitiveLock(fqn, scope, <<>>, {})
    IN  IF ~info.ok THEN [a EXCEPT !.crashed = TRUE]
        ELSE IF isCallOnDifferentReceiver(call, scope) THEN a
        ELSE IF ShouldSkipLock(conditionals, fqn, call, scope.selector) THEN a
        ELSE IF r.overflow THEN [a EXCEPT !.crashed = TRUE]
        ELSE IF r.result THEN recordError(a, scope.pos, p, scope.wrapper)
        ELSE a

checkTransitiveReentrantLock(a, scope, call, p) ==
    LET info == GetCallInfo(call)
        fqn == FromCallInfo(info.pkg, info.name)
        r == hasTransitiveLock(fqn, scope, <<>>, {})
    IN  IF ~info.ok THEN a
        ELSE IF isCallOnDifferentReceiver(call, scope) THEN a
        ELSE IF ShouldSkipLock(conditionals, fqn, call, scope.selector) THEN a
        ELSE IF r.overflow THEN [a EXCEPT !.crashed = TRUE]
        ELSE IF r.result THEN recordError(a, scope.pos, p, scope.wrapper)
        ELSE a

\* the positions of the function literals that are an argument of a call, a
\* result of a return or the right-hand side of an assignment
\* a variant that skips no function literal
skipFuncLits_None(node, p) == {}

skipFuncLits(node, p) ==
    LET nodes == Subtree(node, p)
        At(i) == nodes[i]
    IN  UNION {
          CASE At(i).n.k = "call" ->
                    {At(i).p \o <<j>> : j \in {x \in DOMAIN At(i).n.args :
                                                 At(i).n.args[x].k = "funclit"}}
            [] At(i).n.k = "return" ->
                    {At(i).p \o <<j>> : j \in {x \in DOMAIN At(i).n.results :
                                                 At(i).n.results[x].k = "funclit"}}
            [] At(i).n.k = "assign" /\ At(i).n.rhs.k = "funclit" -> {At(i).p \o <<0>>}
            [] OTHER -> {}
          : i \in DOMAIN nodes}

RECURSIVE ReachedCalls(_, _, _)

\* a variant that enters no function literal at all
ReachedCalls_NoLit(node, p, skip) ==
    IF node.k = "go" THEN <<>>
    ELSE IF node.k = "funclit" THEN <<>>
    ELSE LET ch == Children(node, p)
         IN  (IF node.k \in {"call", "invoke"} THEN <<[n |-> node, p |-> p]>> ELSE <<>>)
             \o Flatten([i \in 1..Len(ch) |-> ReachedCalls(ch[i].n, ch[i].p, skip)])

\* the calls the second ast.Inspect reaches, in order
ReachedCalls(node, p, skip) ==
    IF node.k = "go" THEN <<>>
    ELSE IF node.k = "funclit" /\ p \in skip THEN <<>>
    ELSE LET ch == Children(node, p)
         IN  (IF node.k \in {"call", "invoke"} THEN <<[n |-> node, p |-> p]>> ELSE <<>>)
             \o Flatten([i \in 1..Len(ch) |-> ReachedCalls(ch[i].n, ch[i].p, skip)])

RECURSIVE CheckCalls(_, _, _)
CheckCalls(a, scope, cs) ==
    IF cs = <<>> \/ a.crashed THEN a
    ELSE CheckCalls(
            checkTransitiveReentrantLock(
                checkDirectReentrantLock(a, scope, Head(cs).n, Head(cs).p),
                scope, Head(cs).n, Head(cs).p),
            scope, Tail(cs))

checkNodeForReentrantLock(a, node, p, scope) ==
    CheckCalls(a, scope, ReachedCalls(node, p, skipFuncLits(node, p)))

RECURSIVE CheckNodes(_, _, _)
CheckNodes(a, scope, j) ==
    IF j > Len(scope.nodes) \/ a.crashed THEN a
    ELSE CheckNodes(checkNodeForReentrantLock(a, scope.nodes[j].n, scope.nodes[j].p, scope),
                    scope, j + 1)

\* the body of checkReentrantLocks for one function: its scopes from i on
RECURSIVE CheckScopes(_, _, _)
CheckScopes(a, ss, i) ==
    IF i > Len(ss) \/ a.crashed THEN a
    ELSE CheckScopes(CheckNodes(a, ss[i], 1), ss, i + 1)

\* the body of checkMissingUnlocks for one function: the tracker's errors,
\* one per return position not reported before
RECURSIVE ReportMissing(_, _)
ReportMissing(a, errs) ==
    IF errs = <<>> THEN a
    ELSE IF Head(errs).returnPos \in a.reported THEN ReportMissing(a, Tail(errs))
    ELSE ReportMissing(
            [a EXCEPT !.reported = @ \cup {Head(errs).returnPos},
                      !.missingUnlocks = Append(@,
                            MissingUnlockError(Head(errs).lockInfo.pos,
                                               Head(errs).returnPos,
                                               Head(errs).lockInfo.wrapper))],
            Tail(errs))

----------------------------------------------------------------------------
(* The run of the analyzer over one package: run() in analyzer.go. *)

\* the places of a function where a map is ranged
OrdKeys(fi) ==
    LET nodes == Subtree(BlockStmt(prog[fi].body), <<fi>>)
        At(i) == nodes[i]
    IN  {BlockKey(<<fi>>)} \cup UNION {
          CASE At(i).n.k = "if" ->
                    {BlockKey(At(i).p \o <<1>>)}
                    \cup (IF At(i).n.els.k = "none" THEN {} ELSE {BlockKey(At(i).p \o <<2>>)})
            [] At(i).n.k \in {"switch", "typeswitch", "select"} ->
                    {BlockKey(At(i).p \o <<10 + c>>) : c \in DOMAIN At(i).n.cases}
            [] At(i).n.k = "return" -> {At(i).p}
            [] OTHER -> {}
          : i \in DOMAIN nodes}

Orders(fi, fields) == [OrdKeys(fi) -> Perms(FuncSels(fi, fields))]

WrapperFields == {wrappers[f].MutexField : f \in DOMAIN wrappers}

\* Pass 1 of AnalyzeAll for one function: its direct locks, its calls, and
\* its conditional locks
Pass1 ==
    /\ pc = "pass1"
    /\ \E ord \in Orders(idx, {}) :
        LET fqn == funcFQN(prog[idx])
            tracker == analyzeDirectLocks(idx, ord)
            called == recordCalls(prog[idx].body)
        IN  /\ scopes' = IF HasScopes(tracker) THEN MapPut(scopes, fqn, Scopes(tracker))
                         ELSE scopes
            /\ calls' = IF called = <<>> THEN calls
                        ELSE MapPut(calls, fqn, MapGet(calls, fqn, <<>>) \o called)
            /\ conditionals' = FeedConditional(conditionals, idx)
    /\ IF idx < Len(prog) THEN idx' = idx + 1 /\ pc' = pc
       ELSE idx' = 1 /\ pc' = "pass2"
    /\ UNCHANGED <<prog, wrappers, errors, missingUnlocks, reported, todo>>

\* Pass 2
Pass2 ==
    /\ pc = "pass2"
    /\ wrappers' = IdentifyWrappers(scopes)
    /\ pc' = "pass3"
    /\ UNCHANGED <<prog, idx, scopes, calls, conditionals, errors, missingUnlocks,
                   reported, todo>>

\* a variant that records the wrapper-aware scopes of every function
recordWrapperScopes_Always(sc, fqn, tracker) ==
    IF HasScopes(tracker) THEN MapPut(sc, fqn, Scopes(tracker)) ELSE sc

\* the body of the loop of pass 3: a function that has scopes is skipped, the
\* wrapper-aware scopes of another one are recorded when there are any
recordWrapperScopes(sc, fqn, tracker) ==
    IF fqn \notin DOMAIN sc /\ HasScopes(tracker)
        THEN MapPut(sc, fqn, Scopes(tracker))
        ELSE sc

\* Pass 3 for one function: the wrapper-aware tracker where pass 1 found no
\* scope
Pass3 ==
    /\ pc = "pass3"
    /\ \E ord \in Orders(idx, WrapperFields) :
        scopes' = recordWrapperScopes(scopes, funcFQN(prog[idx]),
                                      analyzeWithWrappers(idx, wrappers, ord))
    /\ IF idx < Len(prog) THEN idx' = idx + 1 /\ pc' = pc
       ELSE idx' = 1 /\ pc' = "propagate"
    /\ UNCHANGED <<prog, calls, wrappers, conditionals, errors, missingUnlocks,
                   reported, todo>>

\* the conditional locks are propagated and the analyzer is constructed
Propagate ==
    /\ pc = "propagate"
    /\ conditionals' = PropagateAll(conditionals)
    /\ todo' = DOMAIN scopes
    /\ pc' = IF DOMAIN scopes = {} THEN "missing" ELSE "reentrant"
    /\ UNCHANGED <<prog, idx, scopes, calls, wrappers, errors, missingUnlocks, reported>>

Analyzer == [errors |-> errors, missingUnlocks |-> missingUnlocks,
             reported |-> reported, crashed |-> FALSE]

\* checkReentrantLocks for one function, the next one the range over the
\* scopes map yields
CheckReentrant ==
    /\ pc = "reentrant"
    /\ \E fqn \in todo :
        LET a == CheckScopes(Analyzer, scopes[fqn], 1)
        IN  /\ errors' = a.errors
            /\ reported' = a.reported
            /\ todo' = todo \ {fqn}
            /\ pc' = IF a.crashed THEN "crashed"
                     ELSE IF todo = {fqn} THEN "missing" ELSE pc
    /\ UNCHANGED <<prog, idx, scopes, calls, wrappers, conditionals, missingUnlocks>>

\* checkMissingUnlocks for one function
CheckMissing ==
    /\ pc = "missing"
    /\ \E ord \in Orders(idx, WrapperFields) :
        LET a == ReportMissing(Analyzer, BranchErrors(idx, wrappers, ord))
        IN  /\ missingUnlocks' = a.missingUnlocks
            /\ reported' = a.reported
    /\ IF idx < Len(prog) THEN idx' = idx + 1 /\ pc' = pc
       ELSE idx' = 1 /\ pc' = "done"
    /\ UNCHANGED <<prog, scopes, calls, wrappers, conditionals, errors, todo>>

Next ==
    \/ Pass1
    \/ Pass2
    \/ Pass3
    \/ Propagate
    \/ CheckReentrant
    \/ CheckMissing

\* run() reports what the analyzer holds once Analyze has returned; a run
\* that died in a stack overflow reports nothing
RunEnded == pc \in {"done", "crashed"}
Reports == IF pc = "done" THEN errors ELSE <<>>
MissingReports == IF pc = "done" THEN missingUnlocks ELSE <<>>

\* the state when AnalyzeAll starts on package P
Start(P) ==
    /\ prog = P
    /\ pc = "pass1"
    /\ idx = 1
    /\ scopes = <<>>
    /\ calls = <<>>
    /\ wrappers = <<>>
    /\ conditionals = <<>>
    /\ errors = <<>>
    /\ missingUnlocks = <<>>
    /\ reported = {}
    /\ todo = {}

----------------------------------------------------------------------------
(* The analysed programs, described independently of the analysis: the     *)
(* control paths of a body and the branch a statement lies in.             *)

Cat(A, B) == {a \o b : a \in A, b \in B}

\* The control paths of a statement: the sequences of simple statements an
\* execution can run through (a loop body zero times or once), each with its
\* position p and with br, the position of the innermost branch (then-block,
\* else, case clause; the function itself outside any branch) it lies in.
RECURSIVE PathsOfStmt(_, _, _)
RECURSIVE PathsOfList(_, _, _, _, _)
RECURSIVE PathsOfCases(_, _, _)

PathsOfList(list, p, tag, j, br) ==
    IF j > Len(list) THEN {<<>>}
    ELSE Cat(PathsOfStmt(list[j], p \o <<tag, j>>, br),
             PathsOfList(list, p, tag, j + 1, br))

PathsOfCases(cases, p, c) ==
    IF c > Len(cases) THEN {}
    ELSE PathsOfList(cases[c], p, 10 + c, 1, p \o <<10 + c>>)
         \cup PathsOfCases(cases, p, c + 1)

PathsOfStmt(stmt, p, br) ==
    CASE stmt.k = "if" ->
            PathsOfList(stmt.body, p, 1, 1, p \o <<1>>)
            \cup (CASE stmt.els.k = "block" ->
                          PathsOfList(stmt.els.list, p \o <<2>>, 1, 1, p \o <<2>>)
                    [] stmt.els.k = "if" -> PathsOfStmt(stmt.els, p \o <<2>>, p \o <<2>>)
                    [] OTHER -> {<<>>})
      [] stmt.k \in {"for", "range"} ->
            {<<>>} \cup PathsOfList(stmt.body, p, 1, 1, br)
      [] stmt.k \in {"switch", "typeswitch", "select"} ->
            {<<>>} \cup PathsOfCases(stmt.cases, p, 1)
      [] stmt.k = "block" -> PathsOfList(stmt.list, p, 1, 1, br)
      [] OTHER -> {<<[n |-> stmt, p |-> p, br |-> br]>>}

PathsOf(fi) == PathsOfList(prog[fi].body, <<fi>>, 1, 1, <<fi>>)

\* the simple statements of a function, in source order
StmtsOf(fi) == UNION {Range(path) : path \in PathsOf(fi)}

IsPrefix(a, b) == Len(a) <= Len(b) /\ SubSeq(b, 1, Len(a)) = a

\* source order of positions: the lexicographic order of the paths
RECURSIVE Before(_, _)
Before(a, b) ==
    IF a = <<>> THEN b # <<>>
    ELSE IF b = <<>> THEN FALSE
    ELSE IF Head(a) = Head(b) THEN Before(Tail(a), Tail(b))
    ELSE Head(a) < Head(b)

Acquires(e, sel) == subjectForLockCall(e.n) = sel
Releases(e, sel) == subjectForUnlockCall(e.n) = sel

\* e0 precedes e1 and lies in e1's branch or in one that encloses it
Visible(e0, e1) == Before(e0.p, e1.p) /\ IsPrefix(e0.br, e1.p)

\* some control path runs through e1 and then e2, and none that does so
\* releases sel in between
NoReleaseBetween(fi, e1, e2, sel) ==
    /\ \E path \in PathsOf(fi) : \E i, j \in DOMAIN path :
            i < j /\ path[i] = e1 /\ path[j] = e2
    /\ \A path \in PathsOf(fi) : \A i, j \in DOMAIN path :
            (i < j /\ path[i] = e1 /\ path[j] = e2)
                => \A r \in (i + 1)..(j - 1) : ~Releases(path[r], sel)

\* e1 acquires sel on a path on which no earlier acquisition is unreleased
FirstOnPath(path, i, sel) ==
    \A h \in 1..(i - 1) :
        Acquires(path[h], sel) => \E r \in (h + 1)..(i - 1) : Releases(path[r], sel)

\* the Reentrant findings whose second position is p
FindingsAt(p) == {i \in DOMAIN errors : errors[i].secondLock = p}

ExactlyOneFinding(origin, second) ==
    /\ Cardinality(FindingsAt(second)) = 1
    /\ \A i \in FindingsAt(second) : errors[i].origin = origin

----------------------------------------------------------------------------
(* Bounds and the packages the properties are checked on *)

MaxLen == 2

SeqsUpTo(A, n) == UNION {[1..k -> A] : k \in 1..n}

Sel == <<"s", "m">>
Cond == OtherExpr
If(body) == IfStmt(NoNode, Cond, body, NoNode)
IfElse(body, els) == IfStmt(NoNode, Cond, body, BlockStmt(els))
For(body) == ForStmt(NoNode, Cond, NoNode, body)
Switch(cases) == SwitchStmt(NoNode, Cond, cases)
Method(name, params, body) == FuncDecl("s", StructType, name, params, body)

----------------------------------------------------------------------------
(* Direct reentrancy: one method whose body acquires and releases s.m at   *)
(* the top level and inside branches, loops and blocks.                    *)

DirectSimple == {Lock(Sel), RLock(Sel), Unlock(Sel), DeferUnlock(Sel)}
DirectInner ==
    {<<Lock(Sel)>>, <<RLock(Sel)>>, <<Unlock(Sel)>>, <<Lock(Sel), Lock(Sel)>>,
     <<Unlock(Sel), Lock(Sel)>>, <<Lock(Sel), If(<<RLock(Sel)>>)>>}
DirectBranch == {<<Lock(Sel)>>, <<Unlock(Sel)>>, <<Lock(Sel), RLock(Sel)>>}
DirectCompound ==
    {If(b) : b \in DirectInner} \cup {For(b) : b \in DirectInner}
    \cup {BlockStmt(b) : b \in DirectInner}
    \cup {IfElse(b, e) : b \in DirectBranch, e \in DirectBranch}
    \cup {Switch(<<b, e>>) : b \in DirectBranch, e \in DirectBranch}
DirectPrograms ==
    {<<Method("f", <<>>, body)>> : body \in SeqsUpTo(DirectSimple \cup DirectCompound, MaxLen)}

InitDirect == \E P \in DirectPrograms : Start(P)
SpecDirect == InitDirect /\ [][Next]_vars

\* e1 acquires sel with no earlier acquisition of its own or an enclosing
\* branch still unreleased there
Opens(fi, e1, sel) ==
    LET vis == {e \in StmtsOf(fi) : Visible(e, e1)}
    IN  \A e0 \in vis : Acquires(e0, sel)
            => \E r \in vis : Releases(r, sel) /\ Before(e0.p, r.p)

\* the pairs (first acquire, second acquire) of sel in function fi with no
\* release in between on any path, the first acquire first on its path
PairsAsStated(fi, sel) ==
    {pair \in StmtsOf(fi) \X StmtsOf(fi) :
        /\ Acquires(pair[1], sel) /\ Acquires(pair[2], sel)
        /\ NoReleaseBetween(fi, pair[1], pair[2], sel)
        /\ \E path \in PathsOf(fi) : \E i, j \in DOMAIN path :
                /\ i < j /\ path[i] = pair[1] /\ path[j] = pair[2]
                /\ FirstOnPath(path, i, sel)}

\* those of them whose second acquire lies in the branch of the first, the
\* first opening the region
PairsInBranch(fi, sel) ==
    {pair \in StmtsOf(fi) \X StmtsOf(fi) :
        /\ Acquires(pair[1], sel) /\ Acquires(pair[2], sel)
        /\ NoReleaseBetween(fi, pair[1], pair[2], sel)
        /\ Visible(pair[1], pair[2])
        /\ Opens(fi, pair[1], sel)}

\* C1 as stated: every second acquisition of s.m with no release in between
\* on any path has exactly one Reentrant finding, at the second acquire, with
\* the first acquire as origin.
C1_AsStated ==
    pc = "done" =>
        \A fi \in DOMAIN prog : \A pair \in PairsAsStated(fi, Sel) :
            ExactlyOneFinding(pair[1].p, pair[2].p)

\* C1, amended: when the second acquisition of s.m lies in the branch of the
\* first one (the same then-block, else, case clause or function body, or
\* nested below it), the first one opens the region and no path releases s.m
\* in between, the analysis ends with exactly one Reentrant finding whose
\* second position is the second acquire and whose origin is the first.
C1_DirectReentrancy ==
    pc = "done" =>
        \A fi \in DOMAIN prog : \A pair \in PairsInBranch(fi, Sel) :
            ExactlyOneFinding(pair[1].p, pair[2].p)

\* the run has ended on a function with such a pair whose second acquire is
\* nested below the list of the first
C1_Witness ==
    /\ pc = "done"
    /\ \E pair \in PairsInBranch(1, Sel) :
            /\ Len(pair[2].p) > Len(pair[1].p)
            /\ ExactlyOneFinding(pair[1].p, pair[2].p)

----------------------------------------------------------------------------
(* Call chains: A holds s.m and calls into B, C and Z, which call each     *)
(* other at the top level of their bodies; Z may acquire s.m.              *)

ChainCalls == {CallStmt(<<"s">>, f, <<>>) : f \in {"B", "C", "Z"}}
ChainHolders ==
    {<<Lock(Sel), DeferUnlock(Sel), CallStmt(<<"s">>, f, <<>>)>> : f \in {"B", "Z"}}
    \cup {<<RLock(Sel), If(<<CallStmt(<<"s">>, "B", <<>>)>>), RUnlock(Sel)>>}
ChainLockers ==
    {<<Lock(Sel), Unlock(Sel)>>, <<RLock(Sel), DeferStmt(Call(Sel, "RUnlock", <<>>))>>,
     <<Lock(Sel)>>, <<AssignStmt(OtherExpr)>>}
ChainPrograms ==
    {<<Method("A", <<>>, a), Method("B", <<>>, b), Method("C", <<>>, c), Method("Z", <<>>, z)>> :
        a \in ChainHolders, b \in SeqsUpTo(ChainCalls, MaxLen),
        c \in SeqsUpTo(ChainCalls, MaxLen), z \in ChainLockers}

InitChain == \E P \in ChainPrograms : Start(P)
SpecChain == InitChain /\ [][Next]_vars

FuncNamed(name) == CHOOSE fi \in DOMAIN prog : prog[fi].name = name
Declared(name) == \E fi \in DOMAIN prog : prog[fi].name = name

\* the methods a function calls on receiver root in a top-level statement
TopCallees(fi, root) ==
    {st.x.fn : st \in {t \in Range(prog[fi].body) :
                        t.k = "expr" /\ t.x.k = "call" /\ t.x.recv = <<root>>}}

\* the functions a chain of top-level calls leads to from the ones in S
RECURSIVE ReachFrom(_, _)
ReachFrom(S, root) ==
    LET T == S \cup UNION {{FuncNamed(g) : g \in {h \in TopCallees(f, root) : Declared(h)}}
                           : f \in S}
    IN  IF T = S THEN S ELSE ReachFrom(T, root)

AcquiresIn(fi, sel) == \E e \in StmtsOf(fi) : Acquires(e, sel)

\* the call a simple statement makes itself: the call of an expression
\* statement, of an assignment, of a defer, of a return
SyncCalls(e) ==
    CASE e.n.k = "expr" /\ e.n.x.k = "call" -> {[n |-> e.n.x, p |-> e.p]}
      [] e.n.k = "assign" /\ e.n.rhs.k = "call" -> {[n |-> e.n.rhs, p |-> e.p \o <<0>>]}
      [] e.n.k = "defer" /\ e.n.call.k = "call" -> {[n |-> e.n.call, p |-> e.p \o <<0>>]}
      [] e.n.k = "return" ->
            {[n |-> e.n.results[i], p |-> e.p \o <<i>>] :
                i \in {j \in DOMAIN e.n.results : e.n.results[j].k = "call"}}
      [] OTHER -> {}

\* the calls root.G() that function fi makes while it holds sel, each with
\* the acquisition that opened the region
HeldCalls(fi, sel) ==
    {h \in [origin : StmtsOf(fi), call : UNION {SyncCalls(e) : e \in StmtsOf(fi)}] :
        /\ Acquires(h.origin, sel)
        /\ Opens(fi, h.origin, sel)
        /\ \E e2 \in StmtsOf(fi) :
                /\ h.call \in SyncCalls(e2)
                /\ Visible(h.origin, e2)
                /\ NoReleaseBetween(fi, h.origin, e2, sel)
        /\ h.call.n.recv = <<Head(sel)>>
        /\ Declared(h.call.n.fn)}

\* a chain of top-level calls from the callee ends in an acquirer of sel
ChainLocks(call, sel) ==
    \E z \in ReachFrom({FuncNamed(call.n.fn)}, Head(sel)) : AcquiresIn(z, sel)

ReportedAt(p) == \E i \in DOMAIN Reports : Reports[i].secondLock = p

\* C2 as stated: a call made while s.m is held, whose callee reaches an
\* acquirer of s.m through a chain of calls, has a Reentrant finding reported
\* at the call site when the run ends.
C2_AsStated ==
    RunEnded =>
        \A fi \in DOMAIN prog : \A h \in HeldCalls(fi, Sel) :
            ChainLocks(h.call, Sel) => ReportedAt(h.call.p)

\* the same on the runs that end normally
C2_Completed ==
    pc = "done" =>
        \A fi \in DOMAIN prog : \A h \in HeldCalls(fi, Sel) :
            ChainLocks(h.call, Sel) => FindingsAt(h.call.p) # {}

----------------------------------------------------------------------------
(* A holder of s.m and the callee Z it calls.                              *)

Oth == AssignStmt(OtherExpr)
CallZ == Call(<<"s">>, "Z", <<>>)
HolderBodies ==
    {<<Lock(Sel), ExprStmt(CallZ), Unlock(Sel)>>,
     <<Lock(Sel), DeferUnlock(Sel), Oth, ExprStmt(CallZ)>>,
     <<RLock(Sel), If(<<ExprStmt(CallZ)>>), RUnlock(Sel)>>,
     <<Lock(Sel), For(<<Oth, ExprStmt(CallZ)>>)>>,
     <<Lock(Sel), AssignStmt(CallZ), Unlock(Sel)>>,
     <<Lock(Sel), DeferStmt(CallZ)>>,
     <<Lock(Sel), ReturnStmt(<<CallZ>>)>>,
     <<If(<<Lock(Sel), ExprStmt(CallZ)>>)>>,
     <<Lock(Sel), Unlock(Sel), ExprStmt(CallZ)>>,
     <<ExprStmt(CallZ), Lock(Sel)>>}
CalleeBodies ==
    {<<Lock(Sel)>>, <<RLock(Sel), Oth>>, <<If(<<Lock(Sel)>>)>>,
     <<Switch(<<<<Lock(Sel)>>, <<Oth>>>>)>>, <<For(<<Lock(Sel)>>)>>,
     <<Lock(Sel), Unlock(Sel)>>, <<Lock(Sel), DeferUnlock(Sel)>>,
     <<Lock(Sel), If(<<Unlock(Sel)>>)>>, <<Lock(<<"s", "n">>)>>, <<Oth>>}
CalleePrograms ==
    {<<Method("A", <<>>, a), Method("Z", <<>>, z)>> : a \in HolderBodies, z \in CalleeBodies}
    \cup {<<Method("Z", <<>>, z), Method("A", <<>>, a)>> : a \in HolderBodies, z \in CalleeBodies}

InitCallee == \E P \in CalleePrograms : Start(P)
SpecCallee == InitCallee /\ [][Next]_vars

\* the function acquires sel and has no release of it, deferred or not
NeverReleases(fi, sel) ==
    /\ AcquiresIn(fi, sel)
    /\ \A e \in StmtsOf(fi) : ~Releases(e, sel) /\ subjectForDeferUnlockCall(e.n) # sel

\* C3: a call made while s.m is held, on the receiver root s, to a function
\* that acquires s.m and never releases it, has a Reentrant finding at the
\* call when the run is done.
C3_UnreleasedCalleeCounts ==
    pc = "done" =>
        \A fi \in DOMAIN prog : \A h \in HeldCalls(fi, Sel) :
            NeverReleases(FuncNamed(h.call.n.fn), Sel) => FindingsAt(h.call.p) # {}

\* the run is done, the callee's only scope for s.m is one that ended with
\* unlocked = FALSE, and the call made while s.m is held has its finding
C3_Witness ==
    /\ pc = "done"
    /\ \E h \in HeldCalls(FuncNamed("A"), Sel) :
          LET fqn == funcFQN(prog[FuncNamed("Z")])
          IN  /\ NeverReleases(FuncNamed("Z"), Sel)
              /\ fqn \in DOMAIN scopes
              /\ \A i \in DOMAIN scopes[fqn] :
                    scopes[fqn][i].selector = Sel /\ ~scopes[fqn][i].unlocked
              /\ FindingsAt(h.call.p) # {}

----------------------------------------------------------------------------
(* A holder of s.m that releases it before it calls.                       *)

ZBodies == {<<Lock(Sel), Unlock(Sel)>>, <<Oth>>}
ReleaseStmts ==
    {Unlock(Sel), RUnlock(Sel), Lock(Sel), ExprStmt(CallZ), AssignStmt(CallZ),
     If(<<Unlock(Sel), ExprStmt(CallZ)>>), If(<<ExprStmt(CallZ)>>),
     IfElse(<<Unlock(Sel)>>, <<Unlock(Sel)>>),
     For(<<Unlock(Sel), ExprStmt(CallZ), Lock(Sel)>>),
     Switch(<<<<Unlock(Sel), ExprStmt(CallZ)>>, <<ExprStmt(CallZ)>>>>)}
ReleasePrograms ==
    {<<Method("A", <<>>, <<Lock(Sel)>> \o t), Method("Z", <<>>, z)>> :
        t \in SeqsUpTo(ReleaseStmts, MaxLen), z \in ZBodies}

InitRelease == \E P \in ReleasePrograms : Start(P)
SpecRelease == InitRelease /\ [][Next]_vars

\* the calls of function fi that come after a release of sel made in their
\* own or an enclosing branch, with no acquisition of sel in between
CallsAfterRelease(fi, sel) ==
    {h \in [release : StmtsOf(fi), call : UNION {SyncCalls(e) : e \in StmtsOf(fi)}] :
        /\ Releases(h.release, sel)
        /\ \E e2 \in StmtsOf(fi) :
                /\ h.call \in SyncCalls(e2)
                /\ Visible(h.release, e2)
                /\ \A e \in StmtsOf(fi) :
                      (Before(h.release.p, e.p) /\ Before(e.p, e2.p)) => ~Acquires(e, sel)}

\* C4 as stated: a call that comes after a release of s.m on some control
\* path, with no acquisition of s.m between them on that path, never has a
\* Reentrant finding.
C4_AsStated ==
    \A fi \in DOMAIN prog : \A path \in PathsOf(fi) : \A i, j \in DOMAIN path :
        (/\ i < j
         /\ Releases(path[i], Sel)
         /\ \A x \in (i + 1)..(j - 1) : ~Acquires(path[x], Sel))
            => \A c \in SyncCalls(path[j]) : FindingsAt(c.p) = {}

\* C4: a call that comes after a release of s.m made in the call's own or an
\* enclosing statement list, with no acquisition of s.m in between, never has
\* a Reentrant finding, whatever the callee acquires.
C4_ReleaseSuppresses ==
    \A fi \in DOMAIN prog : \A h \in CallsAfterRelease(fi, Sel) : FindingsAt(h.call.p) = {}

\* the run is done; A acquired s.m, released it inside an if branch and then
\* called, in that branch, the Z that acquires s.m
C4_Witness ==
    /\ pc = "done"
    /\ AcquiresIn(FuncNamed("Z"), Sel)
    /\ \E h \in CallsAfterRelease(FuncNamed("A"), Sel) :
          /\ Len(h.release.br) > 1
          /\ IsPrefix(h.release.br, h.call.p)
          /\ \E e1 \in StmtsOf(FuncNamed("A")) :
                Acquires(e1, Sel) /\ Visible(e1, h.release) /\ Len(e1.br) = 1
          /\ FindingsAt(h.call.p) = {}

----------------------------------------------------------------------------
(* A switch whose cases release, acquire and call.                         *)

CaseStmts == {Unlock(Sel), Lock(Sel), ExprStmt(CallZ), Oth}
SwitchPrograms ==
    {<<Method("A", <<>>, pre \o <<Switch(<<c1, c2>>)>>),
       Method("Z", <<>>, <<Lock(Sel), Unlock(Sel)>>)>> :
        pre \in {<<>>, <<Lock(Sel)>>},
        c1 \in SeqsUpTo(CaseStmts, MaxLen), c2 \in SeqsUpTo(CaseStmts, MaxLen)}

InitSwitch == \E P \in SwitchPrograms : Start(P)
SpecSwitch == InitSwitch /\ [][Next]_vars

\* the statement acquires sel again: directly, or by a call on the receiver
\* root to a function that acquires it
Reacquires(e, sel) ==
    \/ Acquires(e, sel)
    \/ \E c \in SyncCalls(e) :
          c.n.recv = <<Head(sel)>> /\ Declared(c.n.fn) /\ AcquiresIn(FuncNamed(c.n.fn), sel)

\* where the finding for e is reported
SecondPos(e) == IF SyncCalls(e) = {} THEN e.p ELSE (CHOOSE c \in SyncCalls(e) : TRUE).p

\* the statements of a case clause of function fi
InCase(fi, e) == Len(e.br) > 1 /\ e.br[Len(e.br)] > 10

\* C5: with s.m held at a switch, a statement of a case that acquires s.m
\* again (directly or through a call) with no release of s.m before it in its
\* own case has a Reentrant finding, whatever the sibling cases release; and
\* the finding for an acquisition made inside a case lies in that same case.
C5_BranchIndependence ==
    pc = "done" =>
        \A fi \in DOMAIN prog :
            /\ \A e1, e2 \in StmtsOf(fi) :
                  (/\ Acquires(e1, Sel) /\ Len(e1.br) = 1
                   /\ InCase(fi, e2) /\ Visible(e1, e2)
                   /\ Reacquires(e2, Sel)
                   /\ \A r \in StmtsOf(fi) : Visible(r, e2) => ~Releases(r, Sel))
                      => \E i \in FindingsAt(SecondPos(e2)) : errors[i].origin = e1.p
            /\ \A e1 \in StmtsOf(fi) : \A i \in DOMAIN errors :
                  (InCase(fi, e1) /\ errors[i].origin = e1.p)
                      => IsPrefix(e1.br, errors[i].secondLock)

\* the run is done; s.m was held at the switch, one case released it and the
\* sibling case has its finding; and in another run an acquisition inside a
\* case has its finding in that case while the sibling's call has none
C5_Witness ==
    /\ pc = "done"
    /\ \E e1, r, e2 \in StmtsOf(FuncNamed("A")) :
          /\ Acquires(e1, Sel) /\ Len(e1.br) = 1
          /\ InCase(FuncNamed("A"), r) /\ Releases(r, Sel)
          /\ InCase(FuncNamed("A"), e2) /\ e2.br # r.br /\ Reacquires(e2, Sel)
          /\ \E i \in FindingsAt(SecondPos(e2)) : errors[i].origin = e1.p

\* the run is done; an acquisition made inside a case has its finding in
\* that case, and the call in the sibling case has none
C5_WitnessInner ==
    /\ pc = "done"
    /\ \E e1, e2 \in StmtsOf(FuncNamed("A")) :
          /\ InCase(FuncNamed("A"), e1) /\ Acquires(e1, Sel) /\ Opens(FuncNamed("A"), e1, Sel)
          /\ InCase(FuncNamed("A"), e2) /\ e2.br # e1.br /\ SyncCalls(e2) # {}
          /\ FindingsAt(SecondPos(e2)) = {}
          /\ \E i \in DOMAIN errors : errors[i].origin = e1.p

----------------------------------------------------------------------------
(* A holder of s.m that calls on other receivers.                          *)

Work(recv) == Call(recv, "Work", <<>>)
ReceiverStmts ==
    {ExprStmt(Work(<<"o">>)), ExprStmt(Work(<<"s">>)), ExprStmt(Work(<<"o", "s">>)),
     ExprStmt(Work(<<"s", "o">>)), AssignStmt(Work(<<"o">>)),
     If(<<ExprStmt(Work(<<"o">>))>>), Unlock(Sel)}
WorkBodies ==
    {<<Lock(Sel), Unlock(Sel)>>, <<ExprStmt(Call(<<"s">>, "Deep", <<>>))>>,
     <<Lock(<<"o", "m">>)>>}
ReceiverPrograms ==
    {<<Method("A", <<>>, <<Lock(Sel)>> \o t), Method("Work", <<>>, w),
       Method("Deep", <<>>, <<Lock(Sel)>>)>> :
        t \in SeqsUpTo(ReceiverStmts, MaxLen), w \in WorkBodies}

InitReceiver == \E P \in ReceiverPrograms : Start(P)
SpecReceiver == InitReceiver /\ [][Next]_vars

\* the calls of function fi whose receiver expression has another root
\* identifier than sel
CallsOnOthers(fi, sel) ==
    {c \in UNION {SyncCalls(e) : e \in StmtsOf(fi)} :
        c.n.recv # <<>> /\ Head(c.n.recv) # Head(sel)}

\* C6: a call whose receiver expression has another root identifier than the
\* held selector s.m never has a Reentrant finding, whatever the callee and
\* its callees acquire.
C6_ReceiverPruning ==
    \A fi \in DOMAIN prog : \A c \in CallsOnOthers(fi, Sel) : FindingsAt(c.p) = {}

\* the run is done; A called o.Work() while it held s.m, Work reaches an
\* acquisition of s.m, and the call has no finding
C6_Witness ==
    /\ pc = "done"
    /\ \E h \in [origin : StmtsOf(FuncNamed("A")), call : CallsOnOthers(FuncNamed("A"), Sel)] :
          /\ Acquires(h.origin, Sel)
          /\ \E e2 \in StmtsOf(FuncNamed("A")) :
                /\ h.call \in SyncCalls(e2)
                /\ Visible(h.origin, e2)
                /\ NoReleaseBetween(FuncNamed("A"), h.origin, e2, Sel)
          /\ ChainLocks(h.call, Sel)
          /\ FindingsAt(h.call.p) = {}

----------------------------------------------------------------------------
(* A helper that acquires s.m behind a bool parameter.                     *)

True == Ident("true")
False == Ident("false")
LockParam == <<Field(<<"lock">>, "bool")>>
GateIf(cond, body) == IfStmt(NoNode, cond, body, NoNode)
GateConds == {Ident("lock"), Not(Ident("lock"))}
GateStmts ==
    {Lock(Sel), RLock(Sel), DeferUnlock(Sel), Lock(<<"s", "n">>), Oth, If(<<Lock(Sel)>>)}
GateBlocks ==
    {blk \in SeqsUpTo(GateStmts, MaxLen) :
        \E i \in DOMAIN blk : blk[i] \in {Lock(Sel), RLock(Sel), If(<<Lock(Sel)>>)}}
GatePrograms ==
    {<<Method("A", <<>>, <<Lock(Sel), DeferUnlock(Sel), ExprStmt(Call(<<"s">>, "h", <<a>>))>>),
       Method("h", LockParam, <<GateIf(g, blk), Oth>>)>> :
        a \in {True, False, Ident("x")}, g \in GateConds, blk \in GateBlocks}

InitGate == \E P \in GatePrograms : Start(P)
SpecGate == InitGate /\ [][Next]_vars

\* the gate of the helper: its first statement, an if on its parameter
GateNegated(hi) == prog[hi].body[1].cond.k = "not"
GateShut(hi, arg) ==
    \/ arg = False /\ ~GateNegated(hi)
    \/ arg = True /\ GateNegated(hi)
GateTaken(hi, arg) ==
    \/ arg = True /\ ~GateNegated(hi)
    \/ arg = False /\ GateNegated(hi)

\* the literal the call passes for the parameter "lock" of its callee
LockArg(call) == call.n.args[Len(call.n.args)]

GateVerdict(h, hi) ==
    /\ GateShut(hi, LockArg(h.call)) => FindingsAt(h.call.p) = {}
    /\ GateTaken(hi, LockArg(h.call)) => Cardinality(FindingsAt(h.call.p)) = 1

\* C7 as stated: a helper h(lock bool) acquires s.m only inside its top-level
\* "if lock" (or "if !lock") block; called from a region that holds s.m with
\* the literal that shuts the gate the call has no finding, with the literal
\* that opens it the call has exactly one.
C7_AsStated ==
    pc = "done" =>
        \A h \in HeldCalls(FuncNamed("A"), Sel) : GateVerdict(h, FuncNamed("h"))

\* the first lock call among the statements of the gated block is on sel
FirstLockIs(blk, sel) ==
    LET IsLock(st) == subjectForLockCall(st) # <<>>
        locks == SelectSeq(blk, IsLock)
    IN  locks # <<>> /\ subjectForLockCall(locks[1]) = sel

\* C7 for the helpers whose gated block has its acquisition of s.m as the
\* first lock call among its own statements: shut gate, no finding; open
\* gate, exactly one.
C7_FirstLockGate ==
    pc = "done" =>
        \A h \in HeldCalls(FuncNamed("A"), Sel) :
            FirstLockIs(prog[FuncNamed("h")].body[1].body, Sel)
                => GateVerdict(h, FuncNamed("h"))

----------------------------------------------------------------------------
(* Intermediate functions that forward their bool parameter to the helper. *)

MidNames == <<"M1", "M2", "M3", "M4">>
WideParams == <<Field(<<"n">>, "int"), Field(<<"lock">>, "bool")>>
ParamsOf(wide) == IF wide THEN WideParams ELSE LockParam
ArgsFor(wide, a) == IF wide THEN <<OtherExpr, a>> ELSE <<a>>
Helper(g) == Method("h", LockParam, <<GateIf(g, <<Lock(Sel), DeferUnlock(Sel)>>), Oth>>)
Holder(wide, a) ==
    Method("A", <<>>, <<Lock(Sel), DeferUnlock(Sel),
                        ExprStmt(Call(<<"s">>, MidNames[1], ArgsFor(wide, a)))>>)
\* intermediate i of k: it forwards "lock" to the next one, the last to h
ForwardForms == {"expr", "assign", "nested"}
Mid(i, k, wide, form) ==
    LET next == IF i = k THEN "h" ELSE MidNames[i + 1]
        call == Call(<<"s">>, next, ArgsFor(i < k /\ wide[i + 1], Ident("lock")))
    IN  Method(MidNames[i], ParamsOf(wide[i]),
               CASE form[i] = "expr" -> <<Oth, ExprStmt(call)>>
                 [] form[i] = "assign" -> <<AssignStmt(call)>>
                 [] OTHER -> <<If(<<ExprStmt(call)>>)>>)
Reverse(q) == [i \in 1..Len(q) |-> q[Len(q) + 1 - i]]
Forward(k, wide, form, g, a) ==
    <<Holder(wide[1], a)>> \o [i \in 1..k |-> Mid(i, k, wide, form)] \o <<Helper(g)>>
ForwardPrograms ==
    UNION {{Forward(k, wide, form, g, a), Reverse(Forward(k, wide, form, g, a))} :
        k \in 1..MaxLen, wide \in [1..MaxLen -> BOOLEAN], form \in [1..MaxLen -> ForwardForms],
        g \in GateConds, a \in {True, False, Ident("x")}}

InitForward == \E P \in ForwardPrograms : Start(P)
SpecForward == InitForward /\ [][Next]_vars

Mids == {fi \in DOMAIN prog : prog[fi].name \notin {"A", "h"}}
\* the index (from 0) of the parameter "lock"
LockIndex(fi) == IF prog[fi].params = WideParams THEN 1 ELSE 0

\* every intermediate holds, once propagation is over, a conditional lock
\* with the helper's selector and negation and its own parameter index
Inherited ==
    \A fi \in Mids :
        \E i \in DOMAIN MapGet(conditionals, funcFQN(prog[fi]), <<>>) :
            LET cl == conditionals[funcFQN(prog[fi])][i]
            IN  /\ cl.Selector = Sel
                /\ cl.Negated = GateNegated(FuncNamed("h"))
                /\ cl.ParamIndex = LockIndex(fi)

\* the intermediate forwards in a statement of its body's own list
ForwardsAtTop(fi) == \A j \in DOMAIN prog[fi].body : prog[fi].body[j].k # "if"

\* C8 as stated: every intermediate function that forwards its own bool
\* parameter to the gated parameter of its callee inherits the conditional
\* lock, and the call from the region that holds s.m has no finding with the
\* literal that shuts the gate and exactly one with the literal that opens it.
C8_AsStated ==
    pc \in {"reentrant", "missing", "done"} =>
        /\ Inherited
        /\ pc = "done" =>
              \A h \in HeldCalls(FuncNamed("A"), Sel) : GateVerdict(h, FuncNamed("h"))

\* C8: every intermediate function that forwards its own bool parameter to
\* the gated parameter of its callee inherits the conditional lock (the
\* helper's selector and negation, its own parameter index); when every
\* intermediate forwards in a top-level statement of its body, the call from
\* the region that holds s.m has no finding with the literal that shuts the
\* gate and exactly one with the literal that opens it.
C8_Propagation ==
    pc \in {"reentrant", "missing", "done"} =>
        /\ Inherited
        /\ (pc = "done" /\ \A fi \in Mids : ForwardsAtTop(fi)) =>
              \A h \in HeldCalls(FuncNamed("A"), Sel) : GateVerdict(h, FuncNamed("h"))

\* the run is done; the holder is declared first and two intermediates
\* stand between it and the helper, so that one round of propagation is not
\* enough; the literal shuts the gate and the call has no finding
C8_Witness ==
    /\ pc = "done"
    /\ prog[1].name = "A" /\ Cardinality(Mids) >= 2
    /\ \A fi \in Mids : ForwardsAtTop(fi)
    /\ \E h \in HeldCalls(1, Sel) :
          /\ GateShut(FuncNamed("h"), LockArg(h.call))
          /\ FindingsAt(h.call.p) = {}
    /\ funcFQN(prog[2]) \in DOMAIN conditionals

----------------------------------------------------------------------------
(* A body with direct calls on s.m beside the same body with the wrappers. *)

Acquire == ExprStmt(Call(<<"s">>, "Acquire", <<>>))
Release == ExprStmt(Call(<<"s">>, "Release", <<>>))
DeferRelease == DeferStmt(Call(<<"s">>, "Release", <<>>))
Return == ReturnStmt(<<>>)

\* every direct s.m.Lock() replaced by s.Acquire(), every direct (plain or
\* deferred) s.m.Unlock() by s.Release()
RECURSIVE WrapStmt(_)
WrapList(list) == [i \in DOMAIN list |-> WrapStmt(list[i])]
WrapStmt(stmt) ==
    CASE stmt = Lock(Sel) -> Acquire
      [] stmt = Unlock(Sel) -> Release
      [] stmt = DeferUnlock(Sel) -> DeferRelease
      [] stmt.k = "if" ->
            [stmt EXCEPT !.body = WrapList(@),
                         !.els = IF @.k = "block" THEN BlockStmt(WrapList(@.list)) ELSE @]
      [] stmt.k = "for" -> [stmt EXCEPT !.body = WrapList(@)]
      [] stmt.k = "switch" -> [stmt EXCEPT !.cases = [c \in DOMAIN @ |-> WrapList(@[c])]]
      [] OTHER -> stmt

WrapStmts ==
    {Lock(Sel), Unlock(Sel), DeferUnlock(Sel), ExprStmt(CallZ), Return,
     If(<<Unlock(Sel), ExprStmt(CallZ)>>), If(<<Unlock(Sel), Return>>), If(<<Return>>),
     If(<<Lock(Sel)>>), For(<<ExprStmt(CallZ)>>),
     Switch(<<<<Unlock(Sel)>>, <<ExprStmt(CallZ)>>>>)}
WrapBodies ==
    SeqsUpTo(WrapStmts, MaxLen) \cup {<<Lock(Sel)>> \o t : t \in SeqsUpTo(WrapStmts, MaxLen)}
WrapperPrograms ==
    {<<Method("D", <<>>, body), Method("W", <<>>, WrapList(body)),
       Method("Acquire", <<>>, <<Lock(Sel)>>), Method("Release", <<>>, <<Unlock(Sel)>>),
       Method("Z", <<>>, <<Lock(Sel), Unlock(Sel)>>)>> : body \in WrapBodies}

InitWrapper == \E P \in WrapperPrograms : Start(P)
SpecWrapper == InitWrapper /\ [][Next]_vars

\* the places inside function fi, without the function's own index
ReentrantIn(fi) ==
    {Tail(errors[i].secondLock) : i \in {j \in DOMAIN errors : Head(errors[j].secondLock) = fi}}
MissingIn(fi) ==
    {Tail(missingUnlocks[i].returnPos) :
        i \in {j \in DOMAIN missingUnlocks : Head(missingUnlocks[j].returnPos) = fi}}

\* the attribution to the wrapper Acquire and the Lock inside it
AcquireInfo == [fqn |-> funcFQN(prog[FuncNamed("Acquire")]),
                lockPos |-> <<FuncNamed("Acquire"), 1, 1>>]

\* C9 as stated: the body W, which has s.Acquire() and s.Release() where the
\* body D has s.m.Lock() and s.m.Unlock(), has its Reentrant and its
\* MissingRelease findings at the same places as D, each of them attributed
\* to the wrapper Acquire and the position of the Lock inside it.
C9_AsStated ==
    pc = "done" =>
        /\ ReentrantIn(FuncNamed("W")) = ReentrantIn(FuncNamed("D"))
        /\ MissingIn(FuncNamed("W")) = MissingIn(FuncNamed("D"))
        /\ \A i \in DOMAIN errors :
              Head(errors[i].secondLock) = FuncNamed("W") => errors[i].wrapper = AcquireInfo
        /\ \A i \in DOMAIN missingUnlocks :
              Head(missingUnlocks[i].returnPos) = FuncNamed("W")
                  => missingUnlocks[i].wrapper = AcquireInfo

----------------------------------------------------------------------------
(* A holder of s.m that spawns goroutines and hands out function literals. *)

LockBody == <<Lock(Sel), Unlock(Sel)>>
AfterFunc(lit) == Call(<<"time">>, "AfterFunc", <<OtherExpr, lit>>)
AsyncStmts ==
    {GoStmt(Invoke(LockBody)), GoStmt(CallZ),
     ExprStmt(AfterFunc(FuncLit(LockBody))),
     AssignStmt(AfterFunc(FuncLit(<<ExprStmt(CallZ)>>))),
     AssignStmt(FuncLit(LockBody)),
     ReturnStmt(<<OtherExpr, FuncLit(LockBody)>>),
     AssignStmt(FuncLit(<<ExprStmt(Invoke(LockBody))>>)),
     If(<<AssignStmt(AfterFunc(FuncLit(LockBody)))>>),
     ExprStmt(Invoke(<<GoStmt(Invoke(LockBody))>>)),
     ExprStmt(Invoke(LockBody)),
     ExprStmt(CallZ)}
AsyncPrograms ==
    {<<Method("A", <<>>, <<Lock(Sel), DeferUnlock(Sel)>> \o t),
       Method("Z", <<>>, <<Lock(Sel), DeferUnlock(Sel)>>)>> :
        t \in SeqsUpTo(AsyncStmts, MaxLen)}

InitAsync == \E P \in AsyncPrograms : Start(P)
SpecAsync == InitAsync /\ [][Next]_vars

\* the places of function fi that run later or elsewhere: the go statements,
\* and the function literals that are an argument of a call, a result of a
\* return, the right-hand side of an assignment
Escapes(fi) ==
    LET nodes == Subtree(BlockStmt(prog[fi].body), <<fi>>)
        Lits(x) ==
            IF x.n.k \in {"call", "return", "assign"}
                THEN LET ch == Children(x.n, x.p)
                     IN  {ch[i].p : i \in {j \in DOMAIN ch : ch[j].n.k = "funclit"}}
                ELSE {}
    IN  {nodes[i].p : i \in {j \in DOMAIN nodes : nodes[j].n.k = "go"}}
        \cup UNION {Lits(nodes[i]) : i \in DOMAIN nodes}

\* the acquisitions of sel (direct, or a call of an acquirer) inside them
EscapedAcquires(fi, sel) ==
    LET nodes == Subtree(BlockStmt(prog[fi].body), <<fi>>)
    IN  {nodes[i].p : i \in {j \in DOMAIN nodes :
            /\ nodes[j].n.k = "call"
            /\ \E q \in Escapes(fi) : IsPrefix(q, nodes[j].p)
            /\ \/ nodes[j].n.recv = sel /\ nodes[j].n.fn \in lockMethods
               \/ /\ nodes[j].n.recv = <<Head(sel)>> /\ Declared(nodes[j].n.fn)
                  /\ AcquiresIn(FuncNamed(nodes[j].n.fn), sel)}}

\* C10: no Reentrant finding lies inside a go statement or inside a function
\* literal that is a call argument, a return result or the right-hand side
\* of an assignment; when the run is done the calls the holder makes itself
\* while it holds s.m, to a function that acquires s.m, have their finding.
C10_AsyncEscape ==
    /\ \A fi \in DOMAIN prog : \A i \in DOMAIN errors : \A q \in Escapes(fi) :
          ~IsPrefix(q, errors[i].secondLock)
    /\ pc = "done" =>
          \A fi \in DOMAIN prog : \A h \in HeldCalls(fi, Sel) :
              AcquiresIn(FuncNamed(h.call.n.fn), Sel) => FindingsAt(h.call.p) # {}

\* the run is done; the holder has an acquisition of s.m inside a function
\* literal that escapes, none of them has a finding, and a call the holder
\* makes itself has one
C10_Witness ==
    /\ pc = "done"
    /\ \E q \in Escapes(FuncNamed("A")) : \E a \in EscapedAcquires(FuncNamed("A"), Sel) :
          /\ IsPrefix(q, a)
          /\ \E x \in DOMAIN Subtree(BlockStmt(prog[FuncNamed("A")].body), <<FuncNamed("A")>>) :
                LET node == Subtree(BlockStmt(prog[FuncNamed("A")].body), <<FuncNamed("A")>>)[x]
                IN  node.p = q /\ node.n.k = "funclit"
    /\ \A a \in EscapedAcquires(FuncNamed("A"), Sel) : FindingsAt(a) = {}
    /\ \E h \in HeldCalls(FuncNamed("A"), Sel) : FindingsAt(h.call.p) # {}

----------------------------------------------------------------------------
(* Early returns: one method that acquires s.m (and s.n), releases it in   *)
(* branches and returns at several depths.  tests/branching_locks.go       *)

Sn == <<"s", "n">>

ReturnStmts ==
    {Return, Lock(Sel), Unlock(Sel), Lock(Sn),
     If(<<Return>>), If(<<Unlock(Sel), Return>>), If(<<If(<<Return>>)>>),
     If(<<Lock(Sel)>>), For(<<Unlock(Sel)>>),
     IfElse(<<Unlock(Sel)>>, <<Return>>)}
ReturnPrograms ==
    {<<Method("WorkHard", <<>>, <<Lock(Sel)>> \o body)>> :
        body \in SeqsUpTo(ReturnStmts, MaxLen)}

InitReturn == \E P \in ReturnPrograms : Start(P)
SpecReturn == InitReturn /\ [][Next]_vars

\* The simple statements of a body, each with its position p and with br,
\* the innermost region it lies in that has a state of its own: a then-block,
\* an else, a loop body, a case clause, or the function itself.
RECURSIVE RegionsOfStmt(_, _, _)
RECURSIVE RegionsOfList(_, _, _, _, _)

RegionsOfList(list, p, tag, j, br) ==
    IF j > Len(list) THEN {}
    ELSE RegionsOfStmt(list[j], p \o <<tag, j>>, br)
         \cup RegionsOfList(list, p, tag, j + 1, br)

RegionsOfStmt(stmt, p, br) ==
    LET init == IF stmt.k \in {"if", "for", "switch", "typeswitch"} /\ stmt.init.k # "none"
                  THEN RegionsOfStmt(stmt.init, p \o <<3>>, br)
                  ELSE {}
    IN  CASE stmt.k = "if" ->
                init \cup RegionsOfList(stmt.body, p, 1, 1, p \o <<1>>)
                \cup (CASE stmt.els.k = "block" ->
                              RegionsOfList(stmt.els.list, p \o <<2>>, 1, 1, p \o <<2>>)
                        [] stmt.els.k = "if" -> RegionsOfStmt(stmt.els, p \o <<2>>, p \o <<2>>)
                        [] OTHER -> {})
          [] stmt.k \in {"for", "range"} ->
                init \cup RegionsOfList(stmt.body, p, 1, 1, p \o <<1>>)
          [] stmt.k \in {"switch", "typeswitch", "select"} ->
                init \cup UNION {RegionsOfList(stmt.cases[c], p, 10 + c, 1, p \o <<10 + c>>) :
                                    c \in DOMAIN stmt.cases}
          [] stmt.k = "block" -> RegionsOfList(stmt.list, p, 1, 1, br)
          [] OTHER -> {[n |-> stmt, p |-> p, br |-> br]}

RegionsOf(fi) == RegionsOfList(prog[fi].body, <<fi>>, 1, 1, <<fi>>)

ReturnsOf(fi) == {e \in RegionsOf(fi) : e.n.k = "return"}

Defers(e, sel) == subjectForDeferUnlockCall(e.n) = sel

\* the statements before e1 in e1's region or in one that encloses it
SeenBy(fi, e1) == {e \in RegionsOf(fi) : Visible(e, e1)}

\* the acquisitions of sel the return ret sees with no release after them
HeldFrom(fi, ret, sel) ==
    {e1 \in SeenBy(fi, ret) :
        /\ Acquires(e1, sel)
        /\ \A r \in SeenBy(fi, ret) : Releases(r, sel) => Before(r.p, e1.p)}

Deferred(fi, ret, sel) == \E d \in SeenBy(fi, ret) : Defers(d, sel)

\* sel is still ongoing at ret, with no deferred release
Outstanding(fi, ret, sel) == HeldFrom(fi, ret, sel) # {} /\ ~Deferred(fi, ret, sel)

\* the position of the acquisition that opened the region ret lies in
OpenedAt(fi, ret, sel) ==
    {e1.p : e1 \in {e \in HeldFrom(fi, ret, sel) :
                      \A e0 \in HeldFrom(fi, ret, sel) : ~Before(e0.p, e.p)}}

\* the MissingRelease findings at return position p
MissingAt(p) == {i \in DOMAIN missingUnlocks : missingUnlocks[i].returnPos = p}

AcquisitionsOf(fi, sel) == {e.p : e \in {x \in RegionsOf(fi) : Acquires(x, sel)}}

----------------------------------------------------------------------------
(* Deferred releases: a method that acquires s.m (directly or through the  *)
(* wrapper Acquire), registers a deferred release in one of the three      *)
(* forms and returns.  tests/simple_rlock.go                               *)

DeferClosure(body) == DeferStmt(Invoke(body))

DeferForms ==
    {DeferUnlock(Sel), DeferClosure(<<Unlock(Sel)>>),
     DeferClosure(<<Unlock(Sn), Unlock(Sel)>>), DeferRelease}
DeferStmts ==
    DeferForms \cup {Return, If(<<Return>>), If(<<DeferUnlock(Sel)>>),
                     If(<<DeferRelease, Return>>)}
DeferPrograms ==
    {<<Method("Test", <<>>, head \o body),
       Method("Acquire", <<>>, <<Lock(Sel)>>), Method("Release", <<>>, <<Unlock(Sel)>>)>> :
        head \in {<<Lock(Sel)>>, <<Lock(Sn), Lock(Sel)>>, <<Acquire>>},
        body \in SeqsUpTo(DeferStmts, MaxLen)}

InitDefer == \E P \in DeferPrograms : Start(P)
SpecDefer == InitDefer /\ [][Next]_vars

\* the function releases sel and acquires nothing
ReleasesOnly(fi, sel) ==
    /\ \E e \in RegionsOf(fi) : Releases(e, sel)
    /\ \A e \in RegionsOf(fi) : subjectForLockCall(e.n) = <<>>

\* the function acquires sel and releases nothing
AcquiresOnly(fi, sel) ==
    /\ \E e \in RegionsOf(fi) : Acquires(e, sel)
    /\ \A e \in RegionsOf(fi) : subjectForUnlockCall(e.n) = <<>>

\* the defer statement e defers a release of sel: directly, in a closure
\* whose body contains the release, or through a function that only releases
DefersRelease(e, sel) ==
    /\ e.n.k = "defer"
    /\ \/ e.n.call.k = "call" /\ e.n.call.recv = sel /\ e.n.call.fn \in unlockMethods
       \/ /\ e.n.call.k = "invoke"
          /\ \E i \in DOMAIN e.n.call.lit.body :
                subjectForUnlockCall(e.n.call.lit.body[i]) = sel
       \/ /\ e.n.call.k = "call" /\ e.n.call.recv = <<Head(sel)>>
          /\ Declared(e.n.call.fn)
          /\ ReleasesOnly(FuncNamed(e.n.call.fn), sel)

\* the first release among the statements of the closure is the one of sel
DefersFirst(e, sel) ==
    DefersRelease(e, sel)
    /\ (e.n.call.k = "invoke" => FirstSubject(e.n.call.lit.body, unlockMethods) = sel)

\* the positions in fi where sel is acquired, directly or by a call to a
\* function that only acquires it
AcquiredAt(fi, sel) ==
    {e.p : e \in {x \in RegionsOf(fi) :
        \/ Acquires(x, sel)
        \/ /\ x.n.k = "expr" /\ x.n.x.k = "call" /\ x.n.x.recv = <<Head(sel)>>
           /\ Declared(x.n.x.fn) /\ AcquiresOnly(FuncNamed(x.n.x.fn), sel)}}

\* C12 as stated: once a deferred release of a selector (direct, in a
\* deferred closure containing the release, or by a deferred unlock wrapper)
\* is registered, no return after it in the same scope or in a branch nested
\* below it ever has a MissingRelease finding for that selector.
C12_AsStated ==
    \A fi \in DOMAIN prog : \A ret \in ReturnsOf(fi) : \A sel \in {Sel, Sn} :
        (\E d \in SeenBy(fi, ret) : DefersRelease(d, sel))
            => \A i \in MissingAt(ret.p) : missingUnlocks[i].lockPos \notin AcquiredAt(fi, sel)

\* C12 for the deferred releases the tracker registers: a direct one, an
\* unlock wrapper, and a closure in which the release of the selector is the
\* first release among the statements of its body.
C12_FirstRelease ==
    \A fi \in DOMAIN prog : \A ret \in ReturnsOf(fi) : \A sel \in {Sel, Sn} :
        (\E d \in SeenBy(fi, ret) : DefersFirst(d, sel))
            => \A i \in MissingAt(ret.p) : missingUnlocks[i].lockPos \notin AcquiredAt(fi, sel)

----------------------------------------------------------------------------
(* Reported returns: a method that acquires s.m, releases it on some or    *)
(* all branches and ends in a return; every return is the last statement   *)
(* of its block, so each one can be reached.                               *)

BothStmts ==
    {Lock(Sel), Unlock(Sel), DeferUnlock(Sel),
     If(<<Unlock(Sel)>>), If(<<Return>>), If(<<Unlock(Sel), Return>>),
     For(<<Unlock(Sel)>>), IfElse(<<Unlock(Sel)>>, <<Unlock(Sel)>>),
     IfElse(<<Unlock(Sel)>>, <<Return>>), IfElse(<<Unlock(Sel)>>, <<Lock(Sel)>>)}
BothPrograms ==
    {<<Method("f", <<>>, <<Lock(Sel)>> \o mid \o <<Return>>)>> :
        mid \in SeqsUpTo(BothStmts, MaxLen)}

InitBoth == \E P \in BothPrograms : Start(P)
SpecBoth == InitBoth /\ [][Next]_vars

\* the runs of a function from its entry to a return: the control paths cut
\* at their first return
RunsToReturn(fi) ==
    UNION {{SubSeq(path, 1, j) :
                j \in {k \in DOMAIN path :
                          /\ path[k].n.k = "return"
                          /\ \A h \in 1..(k - 1) : path[h].n.k # "return"}} :
           path \in PathsOf(fi)}

\* on the run, the acquisition at lockPos is followed by no release of its
\* selector, and no release of it is deferred
HeldOnRun(run, lockPos) ==
    \E i \in 1..(Len(run) - 1) :
        /\ run[i].p = lockPos
        /\ subjectForLockCall(run[i].n) # <<>>
        /\ \A r \in (i + 1)..(Len(run) - 1) :
              ~Releases(run[r], subjectForLockCall(run[i].n))
        /\ \A d \in 1..(Len(run) - 1) :
              ~DefersRelease([n |-> run[d].n], subjectForLockCall(run[i].n))

\* C13 as stated: every MissingRelease finding (lock_pos, return_pos) has a
\* control path from the function entry to that return on which the selector
\* acquired at lock_pos is acquired, not released, and has no deferred
\* release.
C13_AsStated ==
    \A i \in DOMAIN missingUnlocks :
        \E fi \in DOMAIN prog : \E run \in RunsToReturn(fi) :
            /\ run[Len(run)].p = missingUnlocks[i].returnPos
            /\ HeldOnRun(run, missingUnlocks[i].lockPos)

----------------------------------------------------------------------------
(* Deduplication: a method A that holds s.m and s.n, calls Z (which        *)
(* acquires one or both) and returns with locks held, so that two scopes   *)
(* meet at one call and two held selectors at one return.                  *)

DedupStmts ==
    {ExprStmt(CallZ), Unlock(Sel), Unlock(Sn), Return, Lock(Sel),
     If(<<ExprStmt(CallZ), Return>>)}
DedupCallees ==
    {<<Lock(Sel), Lock(Sn), Unlock(Sn), Unlock(Sel)>>, <<Lock(Sn), Unlock(Sn)>>}
DedupPrograms ==
    {<<Method("A", <<>>, <<Lock(Sel), Lock(Sn)>> \o body), Method("Z", <<>>, z)>> :
        body \in SeqsUpTo(DedupStmts, MaxLen), z \in DedupCallees}

InitDedup == \E P \in DedupPrograms : Start(P)
SpecDedup == InitDedup /\ [][Next]_vars

\* the Reentrant findings one scope yields when nothing was reported before
Alone(scope) == CheckNodes(NewAnalyzer, scope, 1).errors

\* the MissingRelease candidates of a function, in one of the orders
Candidates(fi) ==
    BranchErrors(fi, wrappers, CHOOSE ord \in Orders(fi, WrapperFields) : TRUE)

\* checkReentrantLocks has run for the function
Checked(fqn) == pc \in {"missing", "done"} \/ (pc = "reentrant" /\ fqn \notin todo)

\* C14: no two Reentrant findings share a second_lock position and no two
\* MissingRelease findings share a return position; of the findings the
\* scopes of a function yield for one position, the one of the first scope
\* in order is the one kept; and once the run is done every return with a
\* MissingRelease candidate has a finding, whatever Reentrant findings were
\* recorded before.
C14_Dedup ==
    /\ \A i, j \in DOMAIN errors : errors[i].secondLock = errors[j].secondLock => i = j
    /\ \A i, j \in DOMAIN missingUnlocks :
          missingUnlocks[i].returnPos = missingUnlocks[j].returnPos => i = j
    /\ \A fqn \in DOMAIN scopes : Checked(fqn) =>
          \A k \in DOMAIN scopes[fqn] : \A e \in Range(Alone(scopes[fqn][k])) :
              (\A h \in 1..(k - 1) : \A e0 \in Range(Alone(scopes[fqn][h])) :
                    e0.secondLock # e.secondLock)
                  => \E i \in DOMAIN errors : errors[i] = e
    /\ pc = "done" =>
          \A fi \in DOMAIN prog :
              /\ \A e \in Range(Candidates(fi)) : MissingAt(e.returnPos) # {}
              /\ \A ret \in ReturnsOf(fi) : \A i \in MissingAt(ret.p) :
                    \E e \in Range(Candidates(fi)) :
                        /\ e.returnPos = ret.p
                        /\ e.lockInfo.pos = missingUnlocks[i].lockPos

\* the run is done; two scopes of A yield a finding for the same call, with
\* different origins, one return has two candidates, and findings of both
\* kinds were recorded
C14_Witness ==
    /\ pc = "done"
    /\ errors # <<>> /\ missingUnlocks # <<>>
    /\ \E fqn \in DOMAIN scopes : \E k, h \in DOMAIN scopes[fqn] :
          \E e \in Range(Alone(scopes[fqn][k])) : \E e0 \in Range(Alone(scopes[fqn][h])) :
              e.secondLock = e0.secondLock /\ e.origin # e0.origin
    /\ \E fi \in DOMAIN prog : \E i, j \in DOMAIN Candidates(fi) :
          i # j /\ Candidates(fi)[i].returnPos = Candidates(fi)[j].returnPos

----------------------------------------------------------------------------
(* Termination of the transitive check, on the call chains of SpecChain:   *)
(* B and C call each other, themselves and Z in every combination.         *)

\* the query checkTransitiveReentrantLock makes for a call in a held scope
\* comes back with an answer
Answers(call, scope) ==
    LET info == GetCallInfo(call)
    IN  info.ok => ~hasTransitiveLock(FromCallInfo(info.pkg, info.name), scope, <<>>, {}).overflow

\* C15 as stated: every top-level query of the transitive check, made for a
\* call in a scope of a function once the call graph is complete, reaches a
\* true/false answer, cycles included, and the run never dies in the
\* recursion.
C15_AsStated ==
    /\ pc # "crashed"
    /\ pc = "reentrant" =>
          \A fqn \in DOMAIN scopes : \A i \in DOMAIN scopes[fqn] :
              \A j \in DOMAIN scopes[fqn][i].nodes :
                  LET node == scopes[fqn][i].nodes[j]
                      reached == ReachedCalls(node.n, node.p, skipFuncLits(node.n, node.p))
                  IN  \A c \in DOMAIN reached : Answers(reached[c].n, scopes[fqn][i])

----------------------------------------------------------------------------
(* Immediate invocation: a method that holds s.m and acquires it again     *)
(* inside function literals that are invoked where they are written.       *)

InvokeStmts ==
    {ExprStmt(Invoke(LockBody)), DeferStmt(Invoke(LockBody)),
     AssignStmt(Invoke(LockBody)), ReturnStmt(<<Invoke(LockBody)>>),
     If(<<ExprStmt(Invoke(LockBody))>>),
     ExprStmt(Invoke(<<ExprStmt(Invoke(LockBody))>>)),
     GoStmt(Invoke(<<ExprStmt(Invoke(LockBody))>>)),
     AssignStmt(FuncLit(<<ExprStmt(Invoke(LockBody))>>)),
     ExprStmt(AfterFunc(FuncLit(<<DeferStmt(Invoke(LockBody))>>))),
     Unlock(Sel), DeferUnlock(Sel)}
InvokePrograms ==
    {<<Method("A", <<>>, <<Lock(Sel)>> \o t)>> : t \in SeqsUpTo(InvokeStmts, MaxLen)}

InitInvoke == \E P \in InvokePrograms : Start(P)
SpecInvoke == InitInvoke /\ [][Next]_vars

\* the simple statement e of fi lies in a region that holds sel
InRegion(fi, e, sel) ==
    \E origin \in StmtsOf(fi) :
        /\ Acquires(origin, sel)
        /\ Visible(origin, e)
        /\ NoReleaseBetween(fi, origin, e, sel)

\* the acquisitions of sel in statement e that lie in the body of a function
\* literal invoked where it is written, and in no go statement and no
\* literal that is an argument, a result or the right-hand side of an
\* assignment
InvokedAcquires(fi, e, sel) ==
    LET nodes == Subtree(e.n, e.p)
        invoked == {nodes[i].p : i \in {j \in DOMAIN nodes : nodes[j].n.k = "invoke"}}
    IN  {nodes[i].p : i \in {j \in DOMAIN nodes :
            /\ nodes[j].n.k = "call"
            /\ nodes[j].n.recv = sel /\ nodes[j].n.fn \in lockMethods
            /\ \E q \in invoked : IsPrefix(q \o <<1>>, nodes[j].p)
            /\ \A q \in Escapes(fi) : ~IsPrefix(q, nodes[j].p)}}

\* C16: when the run is done, every acquisition of s.m inside a function
\* literal that is invoked where it is written (as a statement, deferred,
\* assigned from or returned), in a statement of a region holding s.m, and
\* not nested in a go statement or in an excluded literal, has a Reentrant
\* finding.
C16_Immediate ==
    pc = "done" =>
        \A fi \in DOMAIN prog : \A e \in StmtsOf(fi) :
            InRegion(fi, e, Sel) =>
                \A q \in InvokedAcquires(fi, e, Sel) : FindingsAt(q) # {}

\* the run is done; a deferred invocation and an invocation nested in
\* another invoked literal, both in the held region, have their findings
C16_Witness ==
    /\ pc = "done"
    /\ \E e \in StmtsOf(1) :
          /\ e.n.k = "defer" /\ InRegion(1, e, Sel)
          /\ \E q \in InvokedAcquires(1, e, Sel) : FindingsAt(q) # {}
    /\ \E e \in StmtsOf(1) :
          /\ e.n.k = "expr" /\ InRegion(1, e, Sel)
          /\ \E q \in InvokedAcquires(1, e, Sel) : Len(q) > Len(e.p) + 2 /\ FindingsAt(q) # {}

----------------------------------------------------------------------------
(* Wrapper classification: one method whose body acquires and releases     *)
(* s.m, s.n and the package-level mutex mu, at the top level and in        *)
(* branches.  tests/async_callbacks.go (wrapper.Acquire, Release)          *)

Mu == <<"mu">>

ClassStmts ==
    {Lock(Sel), Unlock(Sel), DeferUnlock(Sel), Lock(Sn), Unlock(Sn), Lock(Mu), Unlock(Mu),
     DeferClosure(<<Unlock(Sel)>>), If(<<Lock(Sel)>>), If(<<Unlock(Sel)>>),
     If(<<Lock(Sel), Unlock(Sel)>>)}
ClassPrograms ==
    {<<Method("W", <<>>, body)>> : body \in SeqsUpTo(ClassStmts, MaxLen)}

InitClass == \E P \in ClassPrograms : Start(P)
SpecClass == InitClass /\ [][Next]_vars

\* the registry has just been filled: scopes holds what the LockTracker runs
\* of the first pass left
Identified == pc = "pass3" /\ idx = 1

FinishedOf(fi) == MapGet(scopes, funcFQN(prog[fi]), <<>>)

\* the finished scopes of fi that were not unlocked
LeftLocked(fi) == {i \in DOMAIN FinishedOf(fi) : ~FinishedOf(fi)[i].unlocked}

\* those of them whose selector has a field part
LeftLockedField(fi) ==
    {i \in LeftLocked(fi) : SplitSelector(FinishedOf(fi)[i].selector).field # <<>>}

Least(S) == CHOOSE i \in S : \A j \in S : i <= j

\* the function acquires sel somewhere and releases it somewhere, by an
\* explicit or a deferred release
AcquiresAndReleases(fi, sel) ==
    /\ \E e \in RegionsOf(fi) : Acquires(e, sel)
    /\ \E e \in RegionsOf(fi) : Releases(e, sel) \/ DefersRelease(e, sel)

\* the body of fi is an acquisition of sel followed by its release
LockThenUnlock(fi, sel) ==
    /\ Len(prog[fi].body) = 2
    /\ subjectForLockCall(prog[fi].body[1]) = sel
    /\ \/ subjectForUnlockCall(prog[fi].body[2]) = sel
       \/ subjectForDeferUnlockCall(prog[fi].body[2]) = sel

\* C17 as stated: a function is a lock wrapper exactly when its LockTracker
\* run leaves a finished scope that was not unlocked, with the field part of
\* the first such scope's selector; a function that acquires and releases the
\* same mutex is no wrapper of either kind.
C17_AsStated ==
    Identified =>
        \A fi \in DOMAIN prog :
            LET fqn == funcFQN(prog[fi])
            IN  /\ IsLockWrapper(wrappers, fqn) <=> LeftLocked(fi) # {}
                /\ LeftLocked(fi) # {} =>
                      /\ fqn \in DOMAIN wrappers
                      /\ wrappers[fqn].MutexField =
                            SplitSelector(FinishedOf(fi)[Least(LeftLocked(fi))].selector).field
                /\ (\E sel \in {Sel, Sn, Mu} : AcquiresAndReleases(fi, sel))
                      => fqn \notin DOMAIN wrappers

\* C17: a function is a lock wrapper exactly when its LockTracker run leaves
\* a finished scope that was not unlocked and whose selector has a field
\* part, with the field part of the first such scope's selector; a function
\* with an acquisition among the statements of its body is never an unlock
\* wrapper, and one whose body is an acquisition followed by the explicit or
\* deferred release of the same mutex is no wrapper of either kind.
C17_LockWrapper ==
    Identified =>
        \A fi \in DOMAIN prog :
            LET fqn == funcFQN(prog[fi])
            IN  /\ IsLockWrapper(wrappers, fqn) <=> LeftLockedField(fi) # {}
                /\ LeftLockedField(fi) # {} =>
                      wrappers[fqn].MutexField =
                          SplitSelector(FinishedOf(fi)[Least(LeftLockedField(fi))].selector).field
                /\ (\E j \in DOMAIN prog[fi].body : subjectForLockCall(prog[fi].body[j]) # <<>>)
                      => ~IsUnlockWrapper(wrappers, fqn)
                /\ (\E sel \in {Sel, Sn, Mu} : LockThenUnlock(fi, sel))
                      => fqn \notin DOMAIN wrappers

\* the registry is filled; W left mu and then s.m locked and is a lock
\* wrapper of field m
C17_Witness ==
    /\ Identified
    /\ Cardinality(LeftLocked(1)) = 2
    /\ Least(LeftLocked(1)) \notin LeftLockedField(1)
    /\ IsLockWrapper(wrappers, funcFQN(prog[1]))
    /\ wrappers[funcFQN(prog[1])].MutexField = <<"m">>

----------------------------------------------------------------------------
(* Unlock-only wrappers, on the methods of SpecClass.                      *)

\* the calls of the given methods on a selector with a field part, anywhere
\* in the body of fi
CallsIn(fi, names) ==
    LET nodes == Subtree(BlockStmt(prog[fi].body), <<fi>>)
    IN  {nodes[i].n : i \in {j \in DOMAIN nodes :
            /\ nodes[j].n.k = "call"
            /\ nodes[j].n.fn \in names
            /\ Len(nodes[j].n.recv) > 1}}

\* the top-level statements of fi that are a release
TopReleases(fi) ==
    {j \in DOMAIN prog[fi].body : subjectForUnlockCall(prog[fi].body[j]) # <<>>}

Greatest(S) == CHOOSE i \in S : \A j \in S : j <= i

\* C18 as stated: a function is an unlock wrapper exactly when its body
\* contains a release call and no acquire call, its mutex_field is the field
\* part of a released selector, and no function is both a lock wrapper and an
\* unlock wrapper.
C18_AsStated ==
    Identified =>
        \A fi \in DOMAIN prog :
            LET fqn == funcFQN(prog[fi])
            IN  /\ IsUnlockWrapper(wrappers, fqn)
                      <=> (CallsIn(fi, unlockMethods) # {} /\ CallsIn(fi, lockMethods) = {})
                /\ IsUnlockWrapper(wrappers, fqn) =>
                      \E c \in CallsIn(fi, unlockMethods) :
                          wrappers[fqn].MutexField = SplitSelector(c.recv).field
                /\ ~(IsLockWrapper(wrappers, fqn) /\ IsUnlockWrapper(wrappers, fqn))

\* C18 for the statements of the body itself: a function is an unlock
\* wrapper exactly when it is no lock wrapper, no statement of its body is an
\* acquire call, one is a release call, and the last of these releases a
\* selector with a field part, which is the mutex_field.
C18_TopLevel ==
    Identified =>
        \A fi \in DOMAIN prog :
            LET fqn == funcFQN(prog[fi])
                last == subjectForUnlockCall(prog[fi].body[Greatest(TopReleases(fi))])
            IN  /\ IsUnlockWrapper(wrappers, fqn)
                      <=> /\ ~IsLockWrapper(wrappers, fqn)
                          /\ TopReleases(fi) # {}
                          /\ \A j \in DOMAIN prog[fi].body :
                                subjectForLockCall(prog[fi].body[j]) = <<>>
                          /\ SplitSelector(last).field # <<>>
                /\ IsUnlockWrapper(wrappers, fqn) =>
                      wrappers[fqn].MutexField = SplitSelector(last).field

----------------------------------------------------------------------------
(* Anomalies: a holder A of s.m that calls a function value fv the type    *)
(* information does not resolve, before and after its call of Z, and a     *)
(* method W on the package-level mutex mu, whose selector has no field.    *)

CallFv == Call(<<>>, "fv", <<>>)

AnomalyStmts ==
    {ExprStmt(CallFv), AssignStmt(CallFv), If(<<ExprStmt(CallFv)>>),
     ExprStmt(Invoke(<<ExprStmt(CallFv)>>)), ExprStmt(CallZ), Lock(Mu)}
AnomalyWrappers == {<<Lock(Mu)>>, <<Unlock(Mu)>>, <<Lock(Mu), ExprStmt(CallFv)>>, <<Lock(Sn)>>}
AnomalyPrograms ==
    {<<Method("A", <<>>, <<Lock(Sel), DeferUnlock(Sel)>> \o t), Method("W", <<>>, w),
       Method("Z", <<>>, <<Lock(Sel), Unlock(Sel)>>)>> :
        t \in SeqsUpTo(AnomalyStmts, MaxLen), w \in AnomalyWrappers}

InitAnomaly == \E P \in AnomalyPrograms : Start(P)
SpecAnomaly == InitAnomaly /\ [][Next]_vars

\* the positions of the calls in fi whose callee the type information does
\* not give: calls of a function value, calls of a function literal
Unresolved(fi) ==
    LET nodes == Subtree(BlockStmt(prog[fi].body), <<fi>>)
    IN  {nodes[i].p : i \in {j \in DOMAIN nodes :
            \/ nodes[j].n.k = "call" /\ nodes[j].n.recv = <<>> /\ nodes[j].n.fn \in FuncVars
            \/ nodes[j].n.k = "invoke"}}

\* every acquire and release call in fi is on a selector without field part
FieldlessOnly(fi) ==
    LET nodes == Subtree(BlockStmt(prog[fi].body), <<fi>>)
    IN  \A i \in DOMAIN nodes :
            (nodes[i].n.k = "call" /\ nodes[i].n.fn \in lockMethods \cup unlockMethods)
                => Len(nodes[i].n.recv) <= 1

\* C19: the run never aborts; no Reentrant finding is at a call whose callee
\* cannot be resolved; no wrapper is registered without a mutex field, and a
\* function whose selectors all lack a field part is no wrapper; and when the
\* run is done the resolved calls of the holder to an acquirer of s.m,
\* before and after the unresolved ones, have their findings.
C19_Anomalies ==
    /\ pc # "crashed"
    /\ \A fi \in DOMAIN prog : \A i \in DOMAIN errors :
          errors[i].secondLock \notin Unresolved(fi)
    /\ \A fqn \in DOMAIN wrappers : wrappers[fqn].MutexField # <<>>
    /\ \A fi \in DOMAIN prog : FieldlessOnly(fi) => funcFQN(prog[fi]) \notin DOMAIN wrappers
    /\ pc = "done" =>
          \A fi \in DOMAIN prog : \A h \in HeldCalls(fi, Sel) :
              AcquiresIn(FuncNamed(h.call.n.fn), Sel)
                  => ExactlyOneFinding(h.origin.p, h.call.p)

\* the run is done; A made an unresolved call in its held region and called
\* Z after it, with its finding there; W left a scope without field part and
\* is no wrapper
C19_Witness ==
    /\ pc = "done"
    /\ \E q \in Unresolved(FuncNamed("A")) : \E h \in HeldCalls(FuncNamed("A"), Sel) :
          /\ Before(q, h.call.p)
          /\ FindingsAt(h.call.p) # {}
    /\ \E i \in DOMAIN FinishedOf(FuncNamed("W")) :
          /\ FinishedOf(FuncNamed("W"))[i].selector = Mu
          /\ ~FinishedOf(FuncNamed("W"))[i].unlocked
    /\ funcFQN(prog[FuncNamed("W")]) \notin DOMAIN wrappers

----------------------------------------------------------------------------
(* The tracker: one method with a body of simple statements, which the     *)
(* first pass runs through one LockTracker, statement after statement.     *)

TrackerStmts ==
    {Lock(Sel), Unlock(Sel), DeferUnlock(Sel), Lock(Sn), Unlock(Sn)}
TrackerPrograms ==
    {<<Method("f", <<>>, body)>> : body \in SeqsUpTo(TrackerStmts, MaxLen + 2)}

InitTracker == \E P \in TrackerPrograms : Start(P)
SpecTracker == InitTracker /\ [][Next]_vars

\* the LockTracker after the first k statements of the body of fi
TrackerAfter(fi, k) ==
    TrackList(NewLockTracker, SubSeq(prog[fi].body, 1, k), <<fi>>, 1, 1, TRUE, <<>>)

\* the scopes of t with their nodes left out
Bare(t) ==
    [i \in DOMAIN t.heap |->
        [selector |-> t.heap[i].selector, pos |-> t.heap[i].pos,
         unlocked |-> t.heap[i].unlocked]]

\* each selector has one ongoing scope at most, its own, not yet finished
OneOngoing(t) ==
    /\ \A s \in DOMAIN t.onGoing :
          /\ t.onGoing[s] \in DOMAIN t.heap
          /\ t.heap[t.onGoing[s]].selector = s
          /\ ~t.heap[t.onGoing[s]].unlocked
          /\ \A i \in DOMAIN t.finished : t.finished[i] # t.onGoing[s]
    /\ \A s1, s2 \in DOMAIN t.onGoing : t.onGoing[s1] = t.onGoing[s2] => s1 = s2
    /\ \A i \in DOMAIN t.finished : t.heap[t.finished[i]].unlocked

----------------------------------------------------------------------------
(* Branch forks of the LockTracker: one method that acquires s.m and then  *)
(* runs a construct with mutually exclusive branches; the branches add     *)
(* nodes, acquire, release and defer a release.                            *)

ForkOps == {Lock(Sel), Unlock(Sel), DeferUnlock(Sel), Lock(Sn), Oth}
ForkHeads == {<<Lock(Sel)>>, <<Lock(Sel), DeferUnlock(Sel)>>}
ForkSiblings == {<<Unlock(Sel)>>}
ForkTails == {<<>>, <<Oth>>}
Forks(b) ==
    {If(b)} \cup UNION {{IfElse(b, e), Switch(<<b, e>>), TypeSwitchStmt(NoNode, Oth, <<b, e>>),
                         SelectStmt(<<b, e>>)} : e \in ForkSiblings}

ForkPrograms ==
    {<<Method("f", <<>>, head \o <<fork>> \o tail)>> :
        head \in ForkHeads, tail \in ForkTails,
        fork \in UNION {Forks(b) : b \in SeqsUpTo(ForkOps, MaxLen)}}

InitFork == \E P \in ForkPrograms : Start(P)
SpecFork == InitFork /\ [][Next]_vars

ForkKinds == {"if", "switch", "typeswitch", "select"}
\* the place of the construct in the body of fi
ForkIndex(fi) == CHOOSE k \in DOMAIN prog[fi].body : prog[fi].body[k].k \in ForkKinds
ForkStmt(fi) == prog[fi].body[ForkIndex(fi)]
ForkPos(fi) == <<fi, 1, ForkIndex(fi)>>

\* the branches of the construct in the order trackNestedStatements takes
\* them: the statements, where their positions start, the block that ends
Branches(stmt, p) ==
    IF stmt.k = "if"
        THEN <<[list |-> stmt.body, base |-> p, tag |-> 1, key |-> BlockKey(p \o <<1>>)]>>
             \o (IF stmt.els.k = "block"
                    THEN <<[list |-> stmt.els.list, base |-> p \o <<2>>, tag |-> 1,
                            key |-> BlockKey(p \o <<2>>)]>>
                    ELSE <<>>)
    ELSE [c \in DOMAIN stmt.cases |->
            [list |-> stmt.cases[c], base |-> p, tag |-> 10 + c,
             key |-> BlockKey(p \o <<10 + c>>)]]

\* the tracker when trackNestedStatements is entered for the construct
AtFork(fi, ord) ==
    TrackOne(TrackList(NewLockTracker, SubSeq(prog[fi].body, 1, ForkIndex(fi) - 1),
                       <<fi>>, 1, 1, TRUE, ord),
             ForkStmt(fi), ForkPos(fi), TRUE)

\* the clone of parent after the first j statements of branch br
CloneAfter(parent, br, j, ord) ==
    TrackList(Clone(parent), SubSeq(br.list, 1, j), br.base, br.tag, 1, TRUE, ord)
\* the clone when the branch is over and EndBlock has run, before the merge
CloneEnded(parent, br, ord) ==
    EndBlock(CloneAfter(parent, br, Len(br.list), ord), ord[br.key])

\* the parent when branch b is about to be cloned
RECURSIVE ParentBefore(_, _, _)
ParentBefore(fi, b, ord) ==
    IF b = 1 THEN AtFork(fi, ord)
    ELSE LET q == ParentBefore(fi, b - 1, ord)
         IN  MergeBranch(q, CloneEnded(q, Branches(ForkStmt(fi), ForkPos(fi))[b - 1], ord))

\* the scopes the parent holds: the ongoing ones and the finished ones
HeldIds(t) == Range(t.onGoing) \cup Range(t.finished)

\* clone c has left the scopes of parent as they were
Untouched(parent, c) ==
    \A id \in HeldIds(parent) :
        /\ c.heap[id].nodes = parent.heap[id].nodes
        /\ c.heap[id].unlocked = parent.heap[id].unlocked

\* C21: whatever the clone of a LockTracker does before its finished scopes
\* are merged (adding nodes, acquire, release, deferred release, EndBlock),
\* the nodes and the unlocked flag of every scope the parent holds stay as
\* they were when the clone was made.
C21_AsStated ==
    pc = "pass2" =>
        \A ord \in Orders(idx, {}) :
            LET brs == Branches(ForkStmt(idx), ForkPos(idx))
            IN  \A b \in DOMAIN brs :
                    LET parent == ParentBefore(idx, b, ord)
                    IN  /\ \A j \in 0..Len(brs[b].list) :
                              Untouched(parent, CloneAfter(parent, brs[b], j, ord))
                        /\ Untouched(parent, CloneEnded(parent, brs[b], ord))

\* the tracker before the construct, and after the whole of it
BeforeFork(fi, ord) ==
    TrackList(NewLockTracker, SubSeq(prog[fi].body, 1, ForkIndex(fi) - 1), <<fi>>, 1, 1, TRUE, ord)
AfterFork(fi, ord) ==
    TrackList(NewLockTracker, SubSeq(prog[fi].body, 1, ForkIndex(fi)), <<fi>>, 1, 1, TRUE, ord)

\* what the branches of the construct finished, one branch after the other
RECURSIVE BranchFinished(_, _, _)
BranchFinished(fi, b, ord) ==
    IF b = 0 THEN <<>>
    ELSE BranchFinished(fi, b - 1, ord)
         \o CloneEnded(ParentBefore(fi, b, ord), Branches(ForkStmt(fi), ForkPos(fi))[b], ord).finished

\* C22: an if/else, switch, type-switch or select statement leaves the
\* ongoing map and the defers set of the LockTracker as they were before the
\* construct, whatever its branches acquire, release or defer; the finished
\* list grows by what the branches finished, in their order, and by nothing
\* else.
C22_BranchFrame ==
    pc = "pass2" =>
        \A ord \in Orders(idx, {}) :
            LET t0 == BeforeFork(idx, ord)
                t1 == AfterFork(idx, ord)
                n == Len(Branches(ForkStmt(idx), ForkPos(idx)))
            IN  /\ t1.onGoing = t0.onGoing
                /\ t1.defers = t0.defers
                /\ t1.finished = t0.finished \o BranchFinished(idx, n, ord)

\* a branch releases s.m, acquires s.n and defers a release, and s.m is
\* ongoing after the construct, s.n is not
C22_Witness ==
    /\ pc = "pass2"
    /\ ForkStmt(idx).k = "switch"
    /\ ForkStmt(idx).cases[1] = <<Unlock(Sel), Lock(Sn)>>
    /\ \E ord \in Orders(idx, {}) :
          /\ DOMAIN AfterFork(idx, ord).onGoing = {Sel}
          /\ Len(AfterFork(idx, ord).finished) > Len(BeforeFork(idx, ord).finished)

\* EndBlock has taken tracker t to tracker e as the description of EndBlock
\* has it
EndsAsDescribed(t, e) ==
    /\ Len(e.finished) = Len(t.finished) + Cardinality(DOMAIN t.onGoing)
    /\ \A sel \in DOMAIN t.onGoing :
          /\ \E i \in (Len(t.finished) + 1)..Len(e.finished) : e.finished[i] = t.onGoing[sel]
          /\ e.heap[t.onGoing[sel]].unlocked = (sel \in t.defers)
    /\ e.onGoing = <<>>
    /\ e.defers = {}
    /\ \A i \in DOMAIN t.finished :
          e.finished[i] = t.finished[i] /\ e.heap[t.finished[i]] = t.heap[t.finished[i]]

\* the tracker of analyzeDirectLocks when the body is over, before EndBlock
AtEnd(fi, ord) == TrackList(NewLockTracker, prog[fi].body, <<fi>>, 1, 1, TRUE, ord)

\* C23: EndBlock appends every ongoing selector with a deferred release to
\* finished with unlocked = true and every other ongoing selector with
\* unlocked = false, leaves ongoing and defers empty and the scopes that were
\* in finished as they were.
C23_AsStated ==
    pc = "pass2" =>
        \A ord \in Orders(idx, {}) :
            EndsAsDescribed(AtEnd(idx, ord), analyzeDirectLocks(idx, ord))

----------------------------------------------------------------------------
(* Compound statements under a held lock: method A acquires s.m (and s.n)  *)
(* and runs one compound statement whose init, condition, post-clause and  *)
(* body call Z, which acquires s.m.                                        *)

VisitBodies == {<<>>} \cup SeqsUpTo({ExprStmt(CallZ), Unlock(Sel)}, MaxLen)
VisitInits == {NoNode, AssignStmt(CallZ)}
VisitConds == {OtherExpr, CallZ}
VisitPosts == {NoNode, ExprStmt(CallZ)}
VisitCases(b) == {<<b, <<Oth>>>>}
Compounds(b) ==
    {IfStmt(i, c, b, NoNode) : i \in VisitInits, c \in VisitConds}
    \cup {ForStmt(i, c, post, b) : i \in VisitInits, c \in VisitConds, post \in VisitPosts}
    \cup {RangeStmt(c, b) : c \in VisitConds}
    \cup {SwitchStmt(i, c, cs) : i \in VisitInits, c \in VisitConds, cs \in VisitCases(b)}
    \cup {TypeSwitchStmt(i, a, cs) : i \in VisitInits, a \in {Oth, AssignStmt(CallZ)},
                                     cs \in VisitCases(b)}
    \cup {SelectStmt(cs) : cs \in VisitCases(b)}
    \cup {BlockStmt(b)}

VisitPrograms ==
    {<<Method("A", <<>>, head \o <<st>>),
       Method("Z", <<>>, <<Lock(Sel), Unlock(Sel)>>)>> :
        head \in {<<Lock(Sel)>>, <<Lock(Sn), Lock(Sel)>>},
        st \in UNION {Compounds(b) : b \in VisitBodies}}

InitVisit == \E P \in VisitPrograms : Start(P)
SpecVisit == InitVisit /\ [][Next]_vars

\* the compound statement of A: the last statement of its body
CompoundIndex(fi) == Len(prog[fi].body)
Compound(fi) == prog[fi].body[CompoundIndex(fi)]
CompoundPos(fi) == <<fi, 1, CompoundIndex(fi)>>

\* the parts of a compound statement that run before its body, in order
PrefixParts(stmt, p) ==
    CASE stmt.k \in {"if", "for"} ->
            Present(stmt.init, p \o <<3>>) \o Present(stmt.cond, p \o <<0>>)
      [] stmt.k = "range" -> Present(stmt.x, p \o <<0>>)
      [] stmt.k = "switch" ->
            Present(stmt.init, p \o <<3>>) \o Present(stmt.tag, p \o <<0>>)
      [] stmt.k = "typeswitch" ->
            Present(stmt.init, p \o <<3>>) \o Present(stmt.assign, p \o <<0>>)
      [] OTHER -> <<>>

\* the tracker of A before its compound statement and after the first part
\* of Track for it
BeforeCompound(fi) ==
    TrackList(NewLockTracker, SubSeq(prog[fi].body, 1, CompoundIndex(fi) - 1),
              <<fi>>, 1, 1, TRUE, <<>>)
AtCompound(fi) == TrackOne(BeforeCompound(fi), Compound(fi), CompoundPos(fi), TRUE)

\* the body statements of the compound statement of fi that are a call of Z
\* after a release of sel earlier in the same statement list
CallsAfterUnlock(fi, sel) ==
    {e \in StmtsOf(fi) :
        /\ e.n = ExprStmt(CallZ)
        /\ Len(e.p) > 3
        /\ \E r \in StmtsOf(fi) :
              /\ Releases(r, sel)
              /\ SubSeq(r.p, 1, Len(r.p) - 1) = SubSeq(e.p, 1, Len(e.p) - 1)
              /\ r.p[Len(r.p)] < e.p[Len(e.p)]}

\* C24: when a compound statement is tracked while locks are held, every
\* ongoing scope gets exactly the prefix parts of the statement appended (init
\* and condition of if and for, iteree of range, init and tag of switch, init
\* and discriminator of type-switch) and not the statement as a whole; a call
\* of Z in the condition of an if reached with s.m held has a Reentrant
\* finding, a call of Z in a body after a release of s.m in that body has
\* none.
C24_PrefixParts ==
    LET fi == FuncNamed("A")
        t0 == BeforeCompound(fi)
        t1 == AtCompound(fi)
    IN  /\ pc = "pass2" =>
              /\ DOMAIN t0.onGoing = FuncSels(fi, {})
              /\ \A sel \in DOMAIN t0.onGoing :
                    t1.heap[t0.onGoing[sel]].nodes
                        = t0.heap[t0.onGoing[sel]].nodes
                            \o PrefixParts(Compound(fi), CompoundPos(fi))
        /\ pc = "done" =>
              /\ Compound(fi).k = "if" /\ Compound(fi).cond = CallZ
                    => ReportedAt(CompoundPos(fi) \o <<0>>)
              /\ \A e \in CallsAfterUnlock(fi, Sel) : ~ReportedAt(e.p)

\* s.m and s.n are held at an if statement whose init and condition call Z
\* and whose body releases s.m and then calls Z: the condition is flagged
C24_Witness ==
    LET fi == FuncNamed("A")
    IN  /\ pc = "done"
        /\ Compound(fi) = IfStmt(AssignStmt(CallZ), CallZ, <<Unlock(Sel), ExprStmt(CallZ)>>, NoNode)
        /\ Head(prog[fi].body) = Lock(Sn)
        /\ ReportedAt(CompoundPos(fi) \o <<0>>)
        /\ CallsAfterUnlock(fi, Sel) # {}

\* the calls of Z in the body of the compound statement of fi with no
\* release of sel before them in their statement list
CallsInBody(fi, sel) ==
    {e \in StmtsOf(fi) :
        /\ e.n = ExprStmt(CallZ)
        /\ Len(e.p) > 3
        /\ \A r \in StmtsOf(fi) :
              Releases(r, sel) /\ SubSeq(r.p, 1, Len(r.p) - 1) = SubSeq(e.p, 1, Len(e.p) - 1)
                  => r.p[Len(r.p)] > e.p[Len(e.p)]}

\* the compound statement of fi is a counted for whose post-clause calls Z
\* and whose body does not release sel
PostCallsZ(fi, sel) ==
    /\ Compound(fi).k = "for"
    /\ Compound(fi).post = ExprStmt(CallZ)
    /\ \A j \in DOMAIN Compound(fi).body : subjectForUnlockCall(Compound(fi).body[j]) # sel

\* C25: a call of Z, which acquires s.m, in the body of an if, for, range,
\* switch case, type-switch case, select case or block, or in the post-clause
\* of a counted for, reached with s.m held, has a Reentrant finding at the
\* call.
C25_AsStated ==
    LET fi == FuncNamed("A")
    IN  pc = "done" =>
            /\ \A e \in CallsInBody(fi, Sel) : ReportedAt(e.p)
            /\ PostCallsZ(fi, Sel) => ReportedAt(CompoundPos(fi) \o <<4>>)

----------------------------------------------------------------------------
(* Deferred releases in the LockTracker, on the bodies of DeferPrograms    *)

\* the LockTracker after the first k statements of the body of fi
TrackedTo(fi, k, ord) ==
    TrackList(NewLockTracker, SubSeq(prog[fi].body, 1, k), <<fi>>, 1, 1, TRUE, ord)

\* statement k of fi defers a release of sel: directly, or in a closure whose
\* body contains the release
DefersDirect(fi, k, sel) ==
    LET st == prog[fi].body[k]
    IN  /\ st.k = "defer"
        /\ \/ subjectForUnlockCall(ExprStmt(st.call)) = sel
           \/ /\ st.call.k = "invoke"
              /\ \E i \in DOMAIN st.call.lit.body :
                    subjectForUnlockCall(st.call.lit.body[i]) = sel

\* the defer statement k only marks sel: the scope stays ongoing, nothing is
\* finished, the next simple statement is still added to the scope, and the
\* scope is finished unlocked when the function ends
OnlyMarks(fi, k, sel, ord) ==
    LET t0 == TrackedTo(fi, k - 1, ord)
        t1 == TrackedTo(fi, k, ord)
        t2 == TrackedTo(fi, k + 1, ord)
        id == t0.onGoing[sel]
        fin == Scopes(analyzeDirectLocks(fi, ord))
    IN  /\ sel \in t1.defers
        /\ t1.onGoing = t0.onGoing
        /\ t1.finished = t0.finished
        /\ k < Len(prog[fi].body) /\ prog[fi].body[k + 1].k \in {"defer", "return"}
              => t2.heap[id].nodes
                    = Append(t1.heap[id].nodes, [n |-> prog[fi].body[k + 1], p |-> <<fi, 1, k + 1>>])
        /\ \A i \in DOMAIN fin : fin[i].selector = sel => fin[i].unlocked

\* C26: a defer of a direct release of a held selector, or of a closure whose
\* body contains the release, marks the selector in defers and does not
\* close its scope; the statement after the defer is still added to the
\* scope, and the scope is finished with unlocked = true at EndBlock.
C26_AsStated ==
    LET fi == FuncNamed("Test")
    IN  pc = "pass2" =>
            \A ord \in Orders(fi, {}), k \in DOMAIN prog[fi].body, sel \in {Sel, Sn} :
                DefersDirect(fi, k, sel) /\ sel \in DOMAIN TrackedTo(fi, k - 1, ord).onGoing
                    => OnlyMarks(fi, k, sel, ord)

----------------------------------------------------------------------------
(* The wrapper-aware tracker on wrapper calls: method W calls the lock      *)
(* wrapper Acquire and the unlock wrapper Release on several receivers.     *)

AcquireOn(recv) == ExprStmt(Call(recv, "Acquire", <<>>))
ReleaseOn(recv) == ExprStmt(Call(recv, "Release", <<>>))
AwareStmts ==
    {AcquireOn(<<"s">>), ReleaseOn(<<"s">>), AcquireOn(<<"o">>), ReleaseOn(<<"o">>),
     AcquireOn(<<"s", "in">>), AssignStmt(Call(<<"s">>, "Acquire", <<>>)), Oth}

AwarePrograms ==
    {<<Method("W", <<>>, body), Method("Acquire", <<>>, <<Lock(Sel)>>),
       Method("Release", <<>>, <<Unlock(Sel)>>)>> :
        body \in SeqsUpTo(AwareStmts, MaxLen + 1)}

InitAware == \E P \in AwarePrograms : Start(P)
SpecAware == InitAware /\ [][Next]_vars

\* the wrapper-aware tracker of fi before statement k, when TrackWithWrappers
\* has added statement k to the held scopes, and after trackWrapperCall
AwareBefore(fi, k) ==
    AnalyzeStatements(NewLockTracker, wrappers, SubSeq(prog[fi].body, 1, k - 1),
                      <<fi>>, 1, 1, <<>>)
AwareAdded(fi, k) == AddToOngoing(AwareBefore(fi, k), prog[fi].body[k], <<fi, 1, k>>)
AwareCalled(fi, k) ==
    trackWrapperCall(AwareAdded(fi, k), wrappers, prog[fi].body[k], <<fi, 1, k>>)

\* the call of statement k of fi, a call of the method named fn
CallsMethod(fi, k, fn) ==
    /\ prog[fi].body[k].k \in {"expr", "assign"}
    /\ CallExpr(prog[fi].body[k]).k = "call"
    /\ CallExpr(prog[fi].body[k]).fn = fn
\* root of the receiver of the call, then the mutex field of the wrappers
Effective(fi, k) == <<Head(CallExpr(prog[fi].body[k]).recv), "m">>

\* a lock wrapper call opens the scope of the effective selector, or leaves
\* the tracker as it is when the selector is ongoing
OpensScope(fi, k) ==
    LET tin == AwareAdded(fi, k)
        tout == AwareCalled(fi, k)
        eff == Effective(fi, k)
    IN  IF eff \in DOMAIN tin.onGoing THEN tout = tin
        ELSE /\ DOMAIN tout.onGoing = DOMAIN tin.onGoing \cup {eff}
             /\ \A s \in DOMAIN tin.onGoing : tout.onGoing[s] = tin.onGoing[s]
             /\ tout.onGoing[eff] \notin DOMAIN tin.heap
             /\ tout.heap[tout.onGoing[eff]]
                    = [selector |-> eff, pos |-> <<fi, 1, k>>, nodes |-> <<>>,
                       unlocked |-> FALSE, wrapper |-> AcquireInfo]
             /\ \A id \in DOMAIN tin.heap : tout.heap[id] = tin.heap[id]
             /\ tout.finished = tin.finished /\ tout.defers = tin.defers

\* an unlock wrapper call closes the scope of the effective selector, or
\* leaves the tracker as it is when the selector is not ongoing
ClosesScope(fi, k) ==
    LET tin == AwareAdded(fi, k)
        tout == AwareCalled(fi, k)
        eff == Effective(fi, k)
    IN  IF eff \notin DOMAIN tin.onGoing THEN tout = tin
        ELSE /\ tout.onGoing = MapDelete(tin.onGoing, eff)
             /\ tout.finished = Append(tin.finished, tin.onGoing[eff])
             /\ tout.heap = [tin.heap EXCEPT ![tin.onGoing[eff]].unlocked = TRUE]
             /\ tout.defers = tin.defers

----------------------------------------------------------------------------
(* The wrapper-aware tracker on the bodies W of WrapperPrograms            *)

\* the wrapper-aware tracker after the first k statements of the body of fi
AwareTo(fi, k, ord) ==
    AnalyzeStatements(NewLockTracker, wrappers, SubSeq(prog[fi].body, 1, k), <<fi>>, 1, 1, ord)

\* C28: when the wrapper-aware tracker processes defer s.Release() with
\* s.m ongoing, Release being an unlock wrapper of field m, s.m is in the
\* defers set afterwards and the scope that was ongoing is finished with
\* unlocked = true when the function ends.
C28_AsStated ==
    LET fi == FuncNamed("W")
    IN  pc = "propagate" =>
            \A ord \in Orders(fi, WrapperFields), k \in DOMAIN prog[fi].body :
                prog[fi].body[k] = DeferRelease /\ Sel \in DOMAIN AwareTo(fi, k - 1, ord).onGoing
                    => /\ Sel \in AwareTo(fi, k, ord).defers
                       /\ analyzeWithWrappers(fi, wrappers, ord)
                            .heap[AwareTo(fi, k - 1, ord).onGoing[Sel]].unlocked

\* statement k of fi is a construct with mutually exclusive branches
IsFork(fi, k) == prog[fi].body[k].k \in {"if", "switch", "select"}

\* C29: in the wrapper-aware tracker the set of ongoing selectors after an
\* if/else, a switch or a select equals the set before it, whatever wrapper
\* calls its branches make, and a simple statement that follows the
\* construct is appended to the scope that was ongoing before it.
C29_AsStated ==
    LET fi == FuncNamed("W")
    IN  pc = "propagate" =>
            \A ord \in Orders(fi, WrapperFields), k \in DOMAIN prog[fi].body :
                IsFork(fi, k) =>
                    LET t0 == AwareTo(fi, k - 1, ord)
                        t1 == AwareTo(fi, k, ord)
                        t2 == AwareTo(fi, k + 1, ord)
                    IN  /\ DOMAIN t1.onGoing = DOMAIN t0.onGoing
                        /\ \A sel \in DOMAIN t0.onGoing :
                              k < Len(prog[fi].body) /\ prog[fi].body[k + 1] = ExprStmt(CallZ)
                                  => \E i \in DOMAIN t2.heap[t0.onGoing[sel]].nodes :
                                        t2.heap[t0.onGoing[sel]].nodes[i].p = <<fi, 1, k + 1>>

----------------------------------------------------------------------------
(* The passes of AnalyzeAll on a method F that mixes direct locks of s.n    *)
(* with calls of the wrappers Acquire and Release of s.m.                   *)

MixedStmts == {Acquire, Release, Lock(Sn), Unlock(Sn), ExprStmt(CallZ)}
MixedPrograms ==
    {<<Method("F", <<>>, body), Method("Acquire", <<>>, <<Lock(Sel)>>),
       Method("Release", <<>>, <<Unlock(Sel)>>),
       Method("Z", <<>>, <<Lock(Sel), Unlock(Sel)>>)>> :
        body \in SeqsUpTo(MixedStmts, MaxLen + 1)}

InitMixed == \E P \in MixedPrograms : Start(P)
SpecMixed == InitMixed /\ [][Next]_vars

\* what the direct pass can record for fi, and what the wrapper-aware pass
\* can, over the orders the maps are ranged in
DirectScopes(fi) == {Scopes(analyzeDirectLocks(fi, ord)) : ord \in Orders(fi, {})}
AwareScopes(fi) ==
    {Scopes(analyzeWithWrappers(fi, wrappers, ord)) : ord \in Orders(fi, WrapperFields)}
HasDirect(fi) == <<>> \notin DirectScopes(fi)

\* the scopes map restricted to the functions with direct scopes
DirectOnly ==
    [fqn \in {funcFQN(prog[fi]) : fi \in {g \in DOMAIN prog : HasDirect(g)}} |-> scopes[fqn]]

\* pass 3 has dealt with function fi
Reanalysed(fi) == pc \notin {"pass1", "pass2"} /\ (pc = "pass3" => fi < idx)

\* C30: the wrapper registry is empty until the direct pass has run for
\* every function and is, once pass 2 has run, what IdentifyWrappers makes of
\* the direct scopes of all functions; a function with direct scopes keeps exactly these whatever
\* wrappers it calls; a function without direct scopes has no scopes before
\* pass 3 reaches it and the scopes of the wrapper-aware tracker afterwards.
C30_PassOrder ==
    /\ pc \in {"pass1", "pass2"} => wrappers = <<>>
    /\ pc \notin {"pass1", "pass2"} => wrappers = IdentifyWrappers(DirectOnly)
    /\ pc # "pass1" =>
          \A fi \in DOMAIN prog :
              IF HasDirect(fi) THEN FinishedOf(fi) \in DirectScopes(fi)
              ELSE IF Reanalysed(fi) THEN FinishedOf(fi) \in AwareScopes(fi)
              ELSE funcFQN(prog[fi]) \notin DOMAIN scopes

\* F locks s.n directly and calls the lock wrapper Acquire: after pass 3 its
\* only scope is the one of s.n, although the wrapper-aware tracker would
\* open one for s.m
C30_Witness ==
    LET fi == FuncNamed("F")
    IN  /\ pc = "propagate"
        /\ prog[fi].body = <<Lock(Sn), Acquire>>
        /\ IsLockWrapper(wrappers, funcFQN(prog[FuncNamed("Acquire")]))
        /\ Len(FinishedOf(fi)) = 1
        /\ FinishedOf(fi)[1].selector = Sn
        /\ \E ss \in AwareScopes(fi) : \E i \in DOMAIN ss : ss[i].selector = Sel

\* ---------------------------------------------------------------------------
\* Calls of a gated helper with every shape of argument list
\* ---------------------------------------------------------------------------

\* The helper h takes its boolean parameter first or second; its body is made
\* of up to two parts: a gated acquisition of s.m or s.n, an acquisition of
\* s.m outside every gate, a call of Z, which acquires s.m itself.
SkipParts ==
    {<<>>,
     <<GateIf(Ident("lock"), <<Lock(Sel), Unlock(Sel)>>)>>,
     <<GateIf(Not(Ident("lock")), <<Lock(Sel), Unlock(Sel)>>)>>,
     <<GateIf(Ident("lock"), <<Lock(Sn), Unlock(Sn)>>)>>,
     <<Lock(Sel), Unlock(Sel)>>,
     <<ExprStmt(CallZ)>>}
SkipArgs == SeqsUpTo({True, False, Ident("x")}, MaxLen)
SkipPrograms ==
    {<<Method("A", <<>>, <<Lock(Sel), DeferUnlock(Sel), ExprStmt(Call(<<"s">>, "h", args))>>),
       Method("h", ParamsOf(wide), p1 \o p2),
       Method("Z", <<>>, <<Lock(Sel), Unlock(Sel)>>)>> :
        args \in SkipArgs, wide \in BOOLEAN, p1 \in SkipParts, p2 \in SkipParts}

InitSkip == \E P \in SkipPrograms : Start(P)
SpecSkip == InitSkip /\ [][Next]_vars

\* the call of h in A, and the conditional locks the registry holds for h
SkipCall == prog[FuncNamed("A")].body[3].x
SkipCallPos == <<FuncNamed("A"), 1, 3>>
SkipLocks == MapGet(conditionals, funcFQN(prog[FuncNamed("h")]), <<>>)

\* a conditional lock whose gate the arguments prove shut
ProvenShut(cl, args) ==
    /\ cl.ParamIndex < Len(args)
    /\ \/ ~cl.Negated /\ args[cl.ParamIndex + 1] = False
       \/ cl.Negated /\ args[cl.ParamIndex + 1] = True

\* C31: once the registry is complete, ShouldSkipLock answers true for the
\* call of h and a held selector exactly when h has a conditional lock on that
\* selector whose parameter index lies within the arguments and whose argument
\* is the literal proving the gate false (false for a plain gate, true for a
\* negated one); so it answers false when h has no conditional lock, when the
\* selectors differ, when the arguments are too few and when the argument is
\* no boolean literal.
C31_Conservative ==
    pc \in {"reentrant", "missing", "done"} =>
        \A sel \in {StrExpr(Sel), StrExpr(Sn)} :
            LET skip == ShouldSkipLock(conditionals, funcFQN(prog[FuncNamed("h")]), SkipCall, sel)
            IN  /\ skip <=> \E i \in DOMAIN SkipLocks :
                                /\ SkipLocks[i].Selector = sel
                                /\ ProvenShut(SkipLocks[i], SkipCall.args)
                /\ SkipLocks = <<>> => ~skip
                /\ (\A i \in DOMAIN SkipLocks : SkipLocks[i].Selector # sel) => ~skip
                /\ (\A i \in DOMAIN SkipLocks : SkipLocks[i].ParamIndex >= Len(SkipCall.args)) => ~skip
                /\ (\A i \in DOMAIN SkipLocks :
                        /\ SkipLocks[i].ParamIndex < Len(SkipCall.args)
                        => SkipCall.args[SkipLocks[i].ParamIndex + 1] \notin {True, False}) => ~skip

\* h(n int, lock bool) gated on s.n and on !lock for s.m, called as h(true, true):
\* the call is skipped for s.m, whose gate is shut, and not for s.n
C31_Witness ==
    /\ pc = "done"
    /\ Len(SkipLocks) = 2
    /\ SkipCall.args = <<True, True>>
    /\ ShouldSkipLock(conditionals, funcFQN(prog[FuncNamed("h")]), SkipCall, StrExpr(Sel))
    /\ ~ShouldSkipLock(conditionals, funcFQN(prog[FuncNamed("h")]), SkipCall, StrExpr(Sn))
    /\ \E i \in DOMAIN SkipLocks : SkipLocks[i].Selector = StrExpr(Sn)

\* the statements of h that acquire s.m when h runs with the arguments of the
\* call: an acquisition outside every gate, a call of Z, a gate on s.m the
\* arguments do not prove shut
GateOpen(stmt, hi, args) ==
    LET idxs == {i \in DOMAIN prog[hi].params : prog[hi].params[i].type = "bool"}
        at == CHOOSE i \in idxs : TRUE
        neg == stmt.cond.k = "not"
    IN  ~(/\ at <= Len(args)
          /\ \/ ~neg /\ args[at] = False
             \/ neg /\ args[at] = True)
HAcquires(hi, args) ==
    \E j \in DOMAIN prog[hi].body :
        LET stmt == prog[hi].body[j]
        IN  \/ stmt = Lock(Sel)
            \/ stmt = ExprStmt(CallZ)
            \/ /\ stmt.k = "if"
               /\ stmt.body[1] = Lock(Sel)
               /\ GateOpen(stmt, hi, args)

\* C35 as stated: when ShouldSkipLock suppresses the call of h made while s.m
\* is held, h run with the arguments of that call acquires s.m on no path; a
\* helper that acquires s.m outside the gate proven false, through another
\* gate or through its callee Z, is flagged at the call.
C35_AsStated ==
    pc = "done" =>
        LET hi == FuncNamed("h")
            skip == ShouldSkipLock(conditionals, funcFQN(prog[hi]), SkipCall, StrExpr(Sel))
        IN  /\ skip => ~HAcquires(hi, SkipCall.args)
            /\ HAcquires(hi, SkipCall.args) => ReportedAt(SkipCallPos)

\* ---------------------------------------------------------------------------
\* Forwarding functions that call each other
\* ---------------------------------------------------------------------------

\* P and Q forward their parameter "lock" to each other, to themselves and to
\* the helper h, whose body holds one or two gates; the functions are
\* declared in this order or in the reverse one.
CycleCall(name, wide) == ExprStmt(Call(<<"s">>, name, ArgsFor(wide, Ident("lock"))))
CycleGates ==
    {<<GateIf(Ident("lock"), <<Lock(Sel), Unlock(Sel)>>)>>,
     <<GateIf(Ident("lock"), <<Lock(Sel), Unlock(Sel)>>),
       GateIf(Ident("lock"), <<Lock(Sel), Unlock(Sel)>>)>>,
     <<GateIf(Ident("lock"), <<Lock(Sel), Unlock(Sel)>>),
       GateIf(Not(Ident("lock")), <<Lock(Sn), Unlock(Sn)>>)>>}
Cycle(wide, pb, qb, gates) ==
    <<Method("A", <<>>, <<Lock(Sel), DeferUnlock(Sel), ExprStmt(Call(<<"s">>, "P", <<False>>))>>),
      Method("P", LockParam, pb),
      Method("Q", ParamsOf(wide), qb),
      Method("h", LockParam, gates)>>
CyclesOf(wide) ==
    UNION {{Cycle(wide, pb, qb, gates), Reverse(Cycle(wide, pb, qb, gates))} :
        pb \in SeqsUpTo({CycleCall("P", FALSE), CycleCall("Q", wide), CycleCall("h", FALSE)}, MaxLen),
        qb \in {<<CycleCall("P", FALSE)>>, <<CycleCall("h", FALSE)>>,
                 <<CycleCall("P", FALSE), CycleCall("h", FALSE)>>,
                 <<CycleCall("h", FALSE), CycleCall("P", FALSE)>>},
        gates \in CycleGates}
CyclePrograms == CyclesOf(TRUE) \cup CyclesOf(FALSE)

InitCycle == \E P \in CyclePrograms : Start(P)
SpecCycle == InitCycle /\ [][Next]_vars

\* the registry as the first pass leaves it
RECURSIVE FeedFrom(_, _)
FeedFrom(locks, fi) ==
    IF fi > Len(prog) THEN locks ELSE FeedFrom(FeedConditional(locks, fi), fi + 1)
FirstPass == FeedFrom(<<>>, 1)

\* the number of rounds of the propagation loop that change the registry
RECURSIVE RoundsOf(_)
RoundsOf(locks) ==
    LET next == PropagateRound(locks, 1)
    IN  IF next = locks THEN 0 ELSE 1 + RoundsOf(next)

\* the entries the propagation can add at all: one for each boolean parameter
\* of each function and each (selector, negated) of the first pass
GateKinds(locks) ==
    UNION {{<<locks[f][i].Selector, locks[f][i].Negated>> : i \in DOMAIN locks[f]} :
            f \in DOMAIN locks}
Capacity(locks) ==
    Cardinality(UNION {{<<fi, b, g>> : b \in DOMAIN BoolParams(prog[fi]), g \in GateKinds(locks)} :
                        fi \in DOMAIN prog})

EntryKey(cl) == <<cl.ParamIndex, cl.Selector, cl.Negated>>
NoTwice(list) == \A i, j \in DOMAIN list : i # j => EntryKey(list[i]) # EntryKey(list[j])

\* no caller that forwards one of its boolean parameters at the parameter
\* index of a conditional lock of its callee lacks the inherited entry
Closed(locks) ==
    \A fi \in DOMAIN prog :
        \A node \in Range(Subtree(BlockStmt(prog[fi].body), <<fi>>)) :
            node.n.k = "call" /\ GetCallInfo(node.n).ok =>
                LET info == GetCallInfo(node.n)
                    theirs == MapGet(locks, FromCallInfo(info.pkg, info.name), <<>>)
                    mine == MapGet(locks, funcFQN(prog[fi]), <<>>)
                    bools == BoolParams(prog[fi])
                IN  \A i \in DOMAIN theirs :
                        (/\ theirs[i].ParamIndex < Len(node.n.args)
                         /\ node.n.args[theirs[i].ParamIndex + 1].k = "ident"
                         /\ node.n.args[theirs[i].ParamIndex + 1].name \in DOMAIN bools)
                        => \E j \in DOMAIN mine :
                            EntryKey(mine[j]) =
                                <<bools[node.n.args[theirs[i].ParamIndex + 1].name],
                                  theirs[i].Selector, theirs[i].Negated>>

Propagated == pc \in {"reentrant", "missing", "done", "crashed"}

\* C32 as stated: the propagation ends in a fixpoint, no function holds the
\* same (parameter index, selector, negated) entry twice, and no caller lacks
\* an entry the inheritance rule gives it.
C32_AsStated ==
    Propagated =>
        /\ PropagateRound(conditionals, 1) = conditionals
        /\ \A f \in DOMAIN conditionals : NoTwice(conditionals[f])
        /\ Closed(conditionals)

\* C32: the propagation ends after at most as many changing rounds as there
\* are entries it can add, in a registry one more round leaves as it is; each
\* function keeps the entries of the first pass and the entries the
\* propagation appends to them differ from each other and from those of the
\* first pass in parameter index, selector or negation; no caller lacks an
\* entry the inheritance rule gives it.
C32_Fixpoint ==
    Propagated =>
        /\ PropagateRound(conditionals, 1) = conditionals
        /\ RoundsOf(FirstPass) <= Capacity(FirstPass)
        /\ \A f \in DOMAIN conditionals :
            LET had == MapGet(FirstPass, f, <<>>)
                now == conditionals[f]
            IN  /\ Len(had) <= Len(now)
                /\ SubSeq(now, 1, Len(had)) = had
                /\ \A i \in (Len(had) + 1)..Len(now) :
                    \A j \in DOMAIN now : j # i => EntryKey(now[j]) # EntryKey(now[i])
        /\ Closed(conditionals)

\* P calls Q, Q calls P and h, declared in this order: Q inherits from h in
\* the first round and P from Q in the second
C32_Witness ==
    /\ pc = "reentrant"
    /\ prog[2].name = "P" /\ prog[2].body = <<CycleCall("Q", TRUE)>>
    /\ prog[3].body = <<CycleCall("P", FALSE), CycleCall("h", FALSE)>>
    /\ PropagateRound(FirstPass, 1) # conditionals
    /\ MapGet(conditionals, funcFQN(prog[2]), <<>>) # <<>>
    /\ MapGet(FirstPass, funcFQN(prog[2]), <<>>) = <<>>

\* the functions the recorded call graph leads to from the ones in S
RECURSIVE RecordedReach(_)
RecordedReach(S) ==
    LET T == S \cup UNION {Range(MapGet(calls, f, <<>>)) : f \in S}
    IN  IF T = S THEN S ELSE RecordedReach(T)

HasScopeOn(f, scope) ==
    \E i \in DOMAIN MapGet(scopes, f, <<>>) : scopes[f][i].selector = scope.selector

\* C33 as stated: once scopes and call graph are complete, the query for any
\* function f and any held scope s, started with a fresh memo table, answers
\* true exactly when f or a function the recorded call graph reaches from f
\* has a scope whose selector is that of s.
C33_AsStated ==
    Propagated =>
        \A fi \in DOMAIN prog : \A h \in DOMAIN scopes : \A i \in DOMAIN scopes[h] :
            LET r == hasTransitiveLock(funcFQN(prog[fi]), scopes[h][i], <<>>, {})
            IN  /\ ~r.overflow
                /\ r.result <=> \E g \in RecordedReach({funcFQN(prog[fi])}) :
                                    HasScopeOn(g, scopes[h][i])

\* the nodes of a scope hold, as one of them or inside one of them, the
\* statement at position p
HoldsPosition(scope, p) ==
    \E i \in DOMAIN scope.nodes :
        \E e \in Range(Subtree(scope.nodes[i].n, scope.nodes[i].p)) : e.p = p

\* the statements of a function that acquire s.m or call a function that does
AcquiringCalls(fi) ==
    {e \in Range(Subtree(BlockStmt(prog[fi].body), <<fi>>)) :
        /\ e.n.k = "expr"
        /\ e.n.x.k = "call"
        /\ \/ e.n.x.fn \in lockMethods /\ e.n.x.recv = Sel
           \/ e.n.x.fn \in {"Acquire", "Z"}}

FindingsIn(fi) ==
    {i \in DOMAIN errors : Head(errors[i].origin) = fi \/ Head(errors[i].secondLock) = fi}

\* C34: no scope of any function holds among its nodes, at any depth, the
\* statement that opened it, whether a direct acquisition or a wrapper call,
\* in the body's own list or inside a branch; and a function with one
\* statement acquiring s.m and no other acquiring call ends with no Reentrant
\* finding of its own.
C34_OpenerOutside ==
    /\ \A f \in DOMAIN scopes : \A i \in DOMAIN scopes[f] :
            ~HoldsPosition(scopes[f][i], scopes[f][i].pos)
    /\ pc = "done" =>
            \A fi \in DOMAIN prog : Cardinality(AcquiringCalls(fi)) = 1 => FindingsIn(fi) = {}

\* D = { if c { s.m.Lock() }; if c { s.m.Unlock(); return } } and W, the same
\* through the wrappers: each has one acquisition, made inside a branch, and
\* the scope it opens in W holds the statements that follow
C34_Witness ==
    /\ pc = "done"
    /\ prog[1].body = <<If(<<Lock(Sel)>>), If(<<Unlock(Sel), Return>>)>>
    /\ \A fi \in {1, 2} :
        /\ Cardinality(AcquiringCalls(fi)) = 1
        /\ \E i \in DOMAIN MapGet(scopes, funcFQN(prog[fi]), <<>>) :
            /\ scopes[funcFQN(prog[fi])][i].pos = <<fi, 1, 1, 1, 1>>
            /\ fi = 2 => scopes[funcFQN(prog[fi])][i].nodes # <<>>

\* What one function contributes to the outcome of a run when its ranges over
\* maps follow the orders ord: the (origin, second) pairs of its scopes, its
\* registration as a wrapper, its (lock_pos, return_pos) pairs.
ReentrantPairs(fi, ord) ==
    LET tracker == analyzeDirectLocks(fi, ord)
        found == CheckScopes(NewAnalyzer, Scopes(tracker), 1).errors
    IN  {<<found[i].origin, found[i].secondLock>> : i \in DOMAIN found}
Classification(fi, ord) ==
    LET tracker == analyzeDirectLocks(fi, ord)
        fqn == funcFQN(prog[fi])
        own == IF HasScopes(tracker) THEN MapPut(<<>>, fqn, Scopes(tracker)) ELSE <<>>
        reg == IdentifyWrappers(own)
    IN  IF fqn \in DOMAIN reg THEN <<reg[fqn]>> ELSE <<>>
MissingPairs(fi, ord) ==
    LET found == ReportMissing(NewAnalyzer, BranchErrors(fi, wrappers, ord)).missingUnlocks
    IN  {<<found[i].lockPos, found[i].returnPos>> : i \in DOMAIN found}

\* C36 as stated: whatever orders the ranges over the ongoing, defers and
\* scopes maps follow, each function of the package yields the same
\* (origin, second) pairs, the same wrapper registration and the same
\* (lock_pos, return_pos) pairs.
C36_AsStated ==
    pc = "done" =>
        \A fi \in DOMAIN prog :
            /\ \A ord \in Orders(fi, {}) :
                LET one == CHOOSE o \in Orders(fi, {}) : TRUE
                IN  /\ ReentrantPairs(fi, ord) = ReentrantPairs(fi, one)
                    /\ Classification(fi, ord) = Classification(fi, one)
            /\ \A ord \in Orders(fi, WrapperFields) :
                MissingPairs(fi, ord) =
                    MissingPairs(fi, CHOOSE o \in Orders(fi, WrapperFields) : TRUE)

\* ---------------------------------------------------------------------------
\* Bodies that end without a return, returns inside function literals
\* ---------------------------------------------------------------------------

FallStmts ==
    {Return, If(<<Return>>), Unlock(Sel), Oth, Lock(Sn),
     ExprStmt(Invoke(<<Return>>)), DeferStmt(Invoke(<<Oth, Return>>)),
     GoStmt(Invoke(<<Return>>)), AssignStmt(FuncLit(<<Return>>)),
     If(<<ExprStmt(Invoke(<<Return>>))>>)}
FallPrograms ==
    {<<Method("f", <<>>, <<Lock(Sel)>> \o body)>> : body \in SeqsUpTo(FallStmts, MaxLen)}

InitFall == \E P \in FallPrograms : Start(P)
SpecFall == InitFall /\ [][Next]_vars

\* the return statements of a function, and those that lie in one of its
\* function literals
ReturnPositions(fi) ==
    {e.p : e \in {x \in Range(Subtree(BlockStmt(prog[fi].body), <<fi>>)) : x.n.k = "return"}}
LiteralReturns(fi) ==
    UNION {{e.p : e \in {x \in Range(Subtree(lit.n, lit.p)) : x.n.k = "return"}} :
            lit \in {y \in Range(Subtree(BlockStmt(prog[fi].body), <<fi>>)) : y.n.k = "funclit"}}

\* C37: every MissingRelease finding lies at a return statement of the
\* function that is not inside a function literal; a function that holds its
\* lock to the end of its body and has no such return has no MissingRelease
\* finding.
C37_OnlyReturns ==
    /\ \A i \in DOMAIN missingUnlocks :
        LET p == missingUnlocks[i].returnPos
        IN  p \in ReturnPositions(Head(p)) \ LiteralReturns(Head(p))
    /\ pc = "done" =>
        \A fi \in DOMAIN prog :
            ReturnPositions(fi) \subseteq LiteralReturns(fi) => MissingIn(fi) = {}

\* f = { s.m.Lock(); func() { return }() }: the only return lies in the
\* literal, the body ends with s.m held, and the run ends with no finding
C37_Witness ==
    /\ pc = "done"
    /\ prog[1].body = <<Lock(Sel), ExprStmt(Invoke(<<Return>>))>>
    /\ LiteralReturns(1) = ReturnPositions(1)
    /\ LiteralReturns(1) # {}
    /\ missingUnlocks = <<>>

\* ---------------------------------------------------------------------------
\* Callees that name their receiver as the caller does, or otherwise
\* ---------------------------------------------------------------------------

\* A (receiver s) holds s.m or s.n and calls s.B(); B and C name their
\* receiver s, o or c; B acquires a field of its receiver, calls C on it, or
\* does neither; C acquires m of its receiver or nothing.
RecvNames == {"s", "o", "c"}
RecvMethod(recv, name, body) == FuncDecl(recv, StructType, name, <<>>, body)
OwnBodies(r) ==
    {<<Lock(<<r, "m">>), Unlock(<<r, "m">>)>>, <<Lock(<<r, "n">>), Unlock(<<r, "n">>)>>,
     <<Oth>>, <<ExprStmt(Call(<<r>>, "C", <<>>))>>}
Renamed(rb, rc) ==
    {<<Method("A", <<>>, <<Lock(held), DeferUnlock(held), ExprStmt(Call(<<"s">>, "B", <<>>))>>),
       RecvMethod(rb, "B", bb), RecvMethod(rc, "C", cb)>> :
        held \in {Sel, Sn}, bb \in OwnBodies(rb),
        cb \in {<<Lock(<<rc, "m">>), Unlock(<<rc, "m">>)>>, <<Oth>>}}
RenamePrograms == UNION {Renamed(rb, rc) : rb \in RecvNames, rc \in RecvNames}

InitRename == \E P \in RenamePrograms : Start(P)
SpecRename == InitRename /\ [][Next]_vars

\* the selector A holds, and the call of B in A
HeldByA == prog[FuncNamed("A")].body[1].x.recv
CallOfB == <<FuncNamed("A"), 1, 3>>

\* function fi acquires, in a statement of its body, the selector sel
LocksText(fi, sel) == \E j \in DOMAIN prog[fi].body : prog[fi].body[j] = Lock(sel)
CallsC(fi) ==
    \E j \in DOMAIN prog[fi].body :
        prog[fi].body[j] = ExprStmt(Call(<<prog[fi].recvName>>, "C", <<>>))
\* the field of its own receiver that names the mutex A holds
OwnField(fi) == <<prog[fi].recvName>> \o Tail(HeldByA)

\* C38 as stated: the call s.B() made while A holds a mutex field of s has a
\* finding exactly when B, or C called by B on its receiver, acquires that
\* field of its own receiver, whatever identifier names the receiver.
C38_AsStated ==
    pc = "done" =>
        (ReportedAt(CallOfB) <=>
            \/ LocksText(FuncNamed("B"), OwnField(FuncNamed("B")))
            \/ CallsC(FuncNamed("B")) /\ LocksText(FuncNamed("C"), OwnField(FuncNamed("C"))))

\* C38: the call s.B() made while A holds s.m (or s.n) has a finding exactly
\* when B, or C called by B, acquires a selector that reads as the held one:
\* with the receiver of the acquiring function named s the finding is
\* reported, with any other identifier it is not.
C38_Textual ==
    pc = "done" =>
        (ReportedAt(CallOfB) <=>
            \/ LocksText(FuncNamed("B"), HeldByA)
            \/ CallsC(FuncNamed("B")) /\ LocksText(FuncNamed("C"), HeldByA))

\* B names its receiver o and acquires o.m while A holds s.m: no finding
C38_Witness ==
    /\ pc = "done"
    /\ HeldByA = Sel
    /\ prog[2].recvName = "o"
    /\ prog[2].body = <<Lock(<<"o", "m">>), Unlock(<<"o", "m">>)>>
    /\ errors = <<>>

\* the BranchTracker after the first k statements of the body of fi
BranchedTo(fi, k, ord) ==
    BranchStatements(NewBranchTrackerWithWrappers, <<>>, SubSeq(prog[fi].body, 1, k),
                     <<fi>>, 1, 1, ord)

\* C39 as stated: after each statement of the body's own list the selectors
\* ongoing in the LockTracker are the selectors ongoing in the BranchTracker.
C39_AsStated ==
    pc = "done" =>
        \A fi \in DOMAIN prog : \A k \in 0..Len(prog[fi].body) : \A ord \in Orders(fi, {}) :
            DOMAIN TrackedTo(fi, k, ord).onGoing = DOMAIN BranchedTo(fi, k, ord).ongoing

====
